---------------------------- MODULE Spec2Model ----------------------------
(***************************************************************************)
(* A model of the Markdown <-> annotated-document conversion core of       *)
(* markdown-renderer: the preprocessor (StringUtils.js), the tokenizer     *)
(* extensions (Tokenizer.js), the template/render layer and the restorer.  *)
(*                                                                         *)
(* Texts are sequences of one-character strings.  JavaScript offsets are   *)
(* 0-based; the model's are 1-based, so JS offset k is position k + 1.     *)
(***************************************************************************)
EXTENDS Integers, Sequences, FiniteSets, TLC

VARIABLES
    pc,      \* position of the run: "start", then one value per step taken
    call,    \* the operation that produced `result`
    src,     \* the input handed to the operation
    result   \* what the operation returned

vars == <<pc, call, src, result>>

NL == "\n"
SP == " "
\* the backtick, written "^" (a string of the module cannot hold a backtick)
BT == "^"
GT == ">"
BS == "\\"
PIPE == "|"

Min(S) == CHOOSE x \in S : \A y \in S : x <= y
Max(S) == CHOOSE x \in S : \A y \in S : x >= y

(***************************************************************************)
(* String primitives (the methods of String.prototype).                    *)
(***************************************************************************)
\* s.slice(from - 1, to): the characters at positions from..to
Slice(s, from, to) == SubSeq(s, from, to)

\* s.slice(from - 1)
SliceFrom(s, from) == SubSeq(s, from, Len(s))

\* p occurs in s at position i
OccursAt(s, p, i) ==
    /\ i >= 1
    /\ i + Len(p) - 1 <= Len(s)
    /\ SubSeq(s, i, i + Len(p) - 1) = p

\* s.indexOf(p, from - 1) + 1; 0 when there is none
IndexOfFrom(s, p, from) ==
    LET hits == {i \in from..(Len(s) - Len(p) + 1) : OccursAt(s, p, i)}
    IN  IF hits = {} THEN 0 ELSE Min(hits)

IndexOf(s, p) == IndexOfFrom(s, p, 1)

\* s.lastIndexOf(p) + 1, searching the first `upto` characters; 0 when none
LastIndexOfIn(s, p, upto) ==
    LET hits == {i \in 1..(upto - Len(p) + 1) : OccursAt(s, p, i)}
    IN  IF hits = {} THEN 0 ELSE Max(hits)

StartsWith(s, p) == OccursAt(s, p, 1)
EndsWith(s, p) == Len(s) >= Len(p) /\ OccursAt(s, p, Len(s) - Len(p) + 1)
IsPrefixOf(p, s) == StartsWith(s, p)

\* c.repeat(n)
RECURSIVE Repeat(_, _)
Repeat(s, n) == IF n <= 0 THEN <<>> ELSE s \o Repeat(s, n - 1)

\* parts.join(sep)
RECURSIVE Join(_, _)
Join(parts, sep) ==
    IF parts = <<>> THEN <<>>
    ELSE IF Len(parts) = 1 THEN parts[1]
    ELSE parts[1] \o sep \o Join(Tail(parts), sep)

\* parts.join("")
Concat(parts) == Join(parts, <<>>)

\* s.split(sep) for a non-empty separator string
RECURSIVE Split(_, _)
Split(s, sep) ==
    LET i == IndexOf(s, sep)
    IN  IF i = 0 THEN <<s>>
        ELSE <<SubSeq(s, 1, i - 1)>> \o Split(SliceFrom(s, i + Len(sep)), sep)

Lines(s) == Split(s, <<NL>>)

\* the elements of a set of integers in increasing order
RECURSIVE SortAsc(_)
SortAsc(S) == IF S = {} THEN <<>> ELSE <<Min(S)>> \o SortAsc(S \ {Min(S)})

\* \s and \S over the model's alphabet
IsSpace(c) == c \in {SP, NL}
IsDigit(c) == c \in {"0", "1", "2", "3", "4", "5", "6", "7", "8", "9"}

\* the texts built from at most n segments of the set segs, flattened
RECURSIVE Texts(_, _)
Texts(segs, n) ==
    IF n = 0 THEN {<<>>}
    ELSE LET shorter == Texts(segs, n - 1)
         IN  shorter \cup {t \o g : t \in shorter, g \in segs}

FENCE == <<BT, BT, BT>>
NLNL == <<NL, NL>>

(***************************************************************************)
(* Preprocessor: chunk splitting.                                          *)
(***************************************************************************)
\* rules.renderer.other.codeBlocksAndInlineCode (a fence pair or a tick pair),
\* matched at position i: the position after the match, 0 when it fails.
\* The first alternative is tried first; both are lazy up to the next closer.
CodeMatchEnd(s, i) ==
    LET fenceClose == IF OccursAt(s, FENCE, i)
                      THEN IndexOfFrom(s, FENCE, i + 3) ELSE 0
        tickClose  == IF OccursAt(s, <<BT>>, i)
                      THEN IndexOfFrom(s, <<BT>>, i + 1) ELSE 0
    IN  IF fenceClose # 0 THEN fenceClose + 3
        ELSE IF tickClose # 0 THEN tickClose + 1
        ELSE 0

\* the exec loop over the global pattern: all matches, left to right, each
\* search resuming after the previous match; [start, end) as positions
RECURSIVE CodeRangesFrom(_, _)
CodeRangesFrom(s, from) ==
    LET starts == {i \in from..Len(s) : CodeMatchEnd(s, i) # 0}
    IN  IF starts = {} THEN {}
        ELSE LET i == Min(starts)
             IN  {[start |-> i, end |-> CodeMatchEnd(s, i)]}
                     \cup CodeRangesFrom(s, CodeMatchEnd(s, i))

codeBoundaries(s) == CodeRangesFrom(s, 1)

\* the exec loop over /\n\n/g: non-overlapping matches, left to right
RECURSIVE DoubleNewlinesFrom(_, _)
DoubleNewlinesFrom(s, from) ==
    LET i == IndexOfFrom(s, NLNL, from)
    IN  IF i = 0 THEN {} ELSE {i} \cup DoubleNewlinesFrom(s, i + 2)

\* step 2 of splitFromEnd (regex, limit): the matches outside every code range
splitPositions(s) ==
    {p \in DoubleNewlinesFrom(s, 1) :
        ~ \E b \in codeBoundaries(s) : p >= b.start /\ p < b.end}

\* step 3: the forEach over the positions sorted from back to front, with no
\* limit; `todo` holds the positions not yet visited
RECURSIVE SplitBackwards(_, _, _)
SplitBackwards(remaining, todo, parts) ==
    IF todo = {} THEN <<remaining>> \o parts
    ELSE LET pos == Max(todo)
         IN  IF pos > Len(remaining)
             THEN SplitBackwards(remaining, todo \ {pos}, parts)
             ELSE SplitBackwards(SubSeq(remaining, 1, pos - 1), todo \ {pos},
                                 <<SliceFrom(remaining, pos + 2)>> \o parts)

\* splitFromEnd(str, regex, limit = Infinity) with regex = /\n\n/g
splitFromEndRegex(str) == SplitBackwards(str, splitPositions(str), <<>>)

\* the positions at which splitFromEnd (separator) cuts: the lastIndexOf loop
RECURSIVE CutsBackwards(_, _)
CutsBackwards(remaining, separator) ==
    LET lastIndex == LastIndexOfIn(remaining, separator, Len(remaining))
    IN  IF lastIndex = 0 THEN {}
        ELSE {lastIndex}
                 \cup CutsBackwards(SubSeq(remaining, 1, lastIndex - 1), separator)

\* splitFromEnd(str, separator): segments cut from the end, then reversed
RECURSIVE SplitFromEndLoop(_, _, _)
SplitFromEndLoop(remaining, separator, parts) ==
    LET lastIndex == LastIndexOfIn(remaining, separator, Len(remaining))
    IN  IF lastIndex = 0 THEN <<remaining>> \o parts
        ELSE SplitFromEndLoop(SubSeq(remaining, 1, lastIndex - 1), separator,
                 <<SliceFrom(remaining, lastIndex + Len(separator))>> \o parts)

\* a slip that skips one character of the separator instead of all of it
splitFromEndShortSkip(str, separator) ==
    IF separator = <<>> THEN [i \in 1..Len(str) |-> <<str[i]>>]
    ELSE SplitFromEndLoop(str, <<separator[1]>>, <<>>)

splitFromEnd(str, separator) ==
    IF separator = <<>> THEN [i \in 1..Len(str) |-> <<str[i]>>]
    ELSE SplitFromEndLoop(str, separator, <<>>)

(***************************************************************************)
(* Chunk splitting on its own: both versions of splitFromEnd applied to    *)
(* every text of a bounded corpus.                                         *)
(***************************************************************************)
MaxSplitSegs == 6
SplitSegs == {<<"a">>, <<NL>>, <<BT>>, FENCE}
SplitCorpus == Texts(SplitSegs, MaxSplitSegs)

InitSplit ==
    /\ pc = "start"
    /\ call = "none"
    /\ src \in SplitCorpus
    /\ result = <<>>

SplitBySeparator ==
    /\ pc = "start"
    /\ pc' = "done"
    /\ call' = "splitFromEnd"
    /\ result' = splitFromEnd(src, NLNL)
    /\ UNCHANGED src

SplitByRegex ==
    /\ pc = "start"
    /\ pc' = "done"
    /\ call' = "splitFromEndRegex"
    /\ result' = splitFromEndRegex(src)
    /\ UNCHANGED src

NextSplit == SplitBySeparator \/ SplitByRegex

SpecSplit == InitSplit /\ [][NextSplit]_vars

\* the positions of src at which the operation that ran cut a double newline
CutPositions ==
    IF call = "splitFromEnd" THEN CutsBackwards(src, NLNL)
    ELSE IF call = "splitFromEndRegex" THEN splitPositions(src)
    ELSE {}

\* a double newline at p lies inside a code range of s
InsideCode(s, p) == \E b \in codeBoundaries(s) : p >= b.start /\ p < b.end

\* no code or inline-code range of src holds a position that was cut
NoSpanStraddlesCut == \A p \in CutPositions : ~ InsideCode(src, p)

C4_NeverSplitsInsideCode ==
    pc = "done" => \A p \in CutPositions : ~ InsideCode(src, p)

(***************************************************************************)
(* Preprocessor: merging adjacent list chunks.                             *)
(***************************************************************************)
\* item.replace(rules.renderer.other.trimStartPattern, ""), /^\s*/
RECURSIVE TrimStart(_)
TrimStart(s) ==
    IF s # <<>> /\ IsSpace(s[1]) THEN TrimStart(Tail(s)) ELSE s

\* rules.renderer.list.unorderedListItem, /^[*+-]\s+/
unorderedListItem(s) ==
    Len(s) >= 2 /\ s[1] \in {"*", "+", "-"} /\ IsSpace(s[2])

\* the length of the run of digits s starts with
RECURSIVE DigitRun(_)
DigitRun(s) ==
    IF s # <<>> /\ IsDigit(s[1]) THEN 1 + DigitRun(Tail(s)) ELSE 0

\* rules.renderer.list.orderedListItem, /^\d+\.\s+/
orderedListItem(s) ==
    LET d == DigitRun(s)
    IN  d >= 1 /\ Len(s) >= d + 2 /\ s[d + 1] = "." /\ IsSpace(s[d + 2])

\* the `type` mergeListItems gives an item; "none" stands for null
listType(item) ==
    LET trimmed == TrimStart(item)
    IN  IF unorderedListItem(trimmed) THEN "unordered"
        ELSE IF orderedListItem(trimmed) THEN "ordered"
        ELSE "none"

\* flushBuffer(): the buffered items become one chunk
flushBuffer(mergedArray, buffer) ==
    IF buffer # <<>> THEN Append(mergedArray, Join(buffer, NLNL))
    ELSE mergedArray

\* a slip that never sees the list type change
typeChangedNever(type, currentType) == FALSE

\* the test `type !== currentType` that flushes the buffered run
typeChanged(type, currentType) == type # currentType

\* the for-of loop of mergeListItems from item i on
RECURSIVE MergeLoop(_, _, _, _, _)
MergeLoop(arr, i, mergedArray, currentType, buffer) ==
    IF i > Len(arr) THEN flushBuffer(mergedArray, buffer)
    ELSE LET type == listType(arr[i])
         IN  IF type # "none"
             THEN IF typeChanged(type, currentType)
                  THEN MergeLoop(arr, i + 1, flushBuffer(mergedArray, buffer),
                                 type, <<arr[i]>>)
                  ELSE MergeLoop(arr, i + 1, mergedArray, currentType,
                                 Append(buffer, arr[i]))
             ELSE MergeLoop(arr, i + 1,
                            Append(flushBuffer(mergedArray, buffer), arr[i]),
                            "none", <<>>)

mergeListItems(arr) == MergeLoop(arr, 1, <<>>, "none", <<>>)

(***************************************************************************)
(* mergeListItems applied to every chunk list of a bounded corpus.         *)
(***************************************************************************)
MaxChunks == 4
ChunkTexts ==
    { <<"*", SP, "a">>, <<"*", SP, "b">>, <<"-", SP, "c">>,
      <<"1", ".", SP, "c">>, <<"1", "2", ".", SP, "d">>,
      <<"p">>, <<"*", "a">>, <<SP, "+", SP, "e">> }
\* the chunk lists of at most n chunks
RECURSIVE ChunkLists(_)
ChunkLists(n) ==
    IF n = 0 THEN {<<>>}
    ELSE LET shorter == ChunkLists(n - 1)
         IN  shorter \cup {Append(l, c) : l \in shorter, c \in ChunkTexts}

InitMerge ==
    /\ pc = "start"
    /\ call = "none"
    /\ src \in ChunkLists(MaxChunks)
    /\ result = <<>>

MergeChunks ==
    /\ pc = "start"
    /\ pc' = "done"
    /\ call' = "mergeListItems"
    /\ result' = mergeListItems(src)
    /\ UNCHANGED src

NextMerge == MergeChunks

SpecMerge == InitMerge /\ [][NextMerge]_vars

\* chunk i of the list opens a run: it is the first, it is no list chunk, or
\* its list kind differs from that of the chunk before it
OpensRun(arr, i) ==
    \/ i = 1
    \/ listType(arr[i]) = "none"
    \/ listType(arr[i]) # listType(arr[i - 1])

RunStarts(arr) == SortAsc({i \in 1..Len(arr) : OpensRun(arr, i)})

\* the last chunk of the k-th maximal run
RunEnd(arr, k) ==
    IF k = Len(RunStarts(arr)) THEN Len(arr) ELSE RunStarts(arr)[k + 1] - 1

\* C5: mergeListItems returns one chunk per maximal run of adjacent chunks of
\* one list kind, equal to the run joined with a double newline, and every
\* non-list chunk as its own unchanged element, all in the original order;
\* an ordered chunk is never merged with an unordered one.
C5_MergeRuns ==
    pc = "done" =>
        /\ Len(result) = Len(RunStarts(src))
        /\ \A k \in 1..Len(result) :
              /\ result[k] = Join(SubSeq(src, RunStarts(src)[k], RunEnd(src, k)), NLNL)
              /\ listType(src[RunStarts(src)[k]]) = "none"
                     => RunStarts(src)[k] = RunEnd(src, k)
              /\ \A i \in RunStarts(src)[k]..RunEnd(src, k) :
                     listType(src[i]) = listType(src[RunStarts(src)[k]])

\* the list ["* a", "* b", "p", "1. c"] became ["* a\n\n* b", "p", "1. c"]
C5_Witness ==
    /\ pc = "done"
    /\ src = << <<"*", SP, "a">>, <<"*", SP, "b">>, <<"p">>, <<"1", ".", SP, "c">> >>
    /\ result = << <<"*", SP, "a", NL, NL, "*", SP, "b">>, <<"p">>,
                   <<"1", ".", SP, "c">> >>

(***************************************************************************)
(* Preprocessor: soft line wraps.                                          *)
(***************************************************************************)
\* line.match(/>/g)?.length after the trim: every ">" of the line counts
getLevel(line) ==
    LET trimmed == TrimStart(line)
    IN  Cardinality({i \in 1..Len(trimmed) : trimmed[i] = GT})

\* the length of the match of rules.renderer.blockquote.blockQuotePattern,
\* /^(?:(>\s*)+)/: markers, each with the whitespace after it
RECURSIVE BlockQuotePrefixLen(_)
BlockQuotePrefixLen(s) ==
    IF s # <<>> /\ s[1] = GT
    THEN LET rest == TrimStart(Tail(s))
         IN  (Len(s) - Len(rest)) + BlockQuotePrefixLen(rest)
    ELSE 0

\* /\S/.test(s)
HasNonSpace(s) == \E i \in 1..Len(s) : ~ IsSpace(s[i])

\* s.includes("  ")
HasDoubleSpace(s) == IndexOf(s, <<SP, SP>>) # 0

isValidLine(line) ==
    IF Len(line) = 0 THEN FALSE
    ELSE LET trimmed == TrimStart(line)
         IN  IF StartsWith(trimmed, <<GT>>)
             THEN LET remaining ==
                          SliceFrom(trimmed, BlockQuotePrefixLen(trimmed) + 1)
                  IN  HasDoubleSpace(remaining) \/ HasNonSpace(remaining)
             ELSE TRUE

\* rules.renderer.list.pattern, /^\s*([-*+]|\d+\.\s)/
listPattern(line) ==
    LET t == TrimStart(line)
        d == DigitRun(t)
    IN  \/ (t # <<>> /\ t[1] \in {"-", "*", "+"})
        \/ (d >= 1 /\ Len(t) >= d + 2 /\ t[d + 1] = "." /\ IsSpace(t[d + 2]))

\* the replace callback for the newline at position offset of str: TRUE when
\* it returns the soft break, FALSE when it returns the newline itself
softBreakAt(str, offset) ==
    LET lineStart   == LastIndexOfIn(str, <<NL>>, offset - 1) + 1
        currentLine == SubSeq(str, lineStart, offset - 1)
        nextPos     == offset + 1
        nextLineEnd == IndexOfFrom(str, <<NL>>, nextPos)
        nextLine    == IF nextLineEnd = 0 THEN SliceFrom(str, nextPos)
                       ELSE SubSeq(str, nextPos, nextLineEnd - 1)
        afterGT     == SliceFrom(nextLine, 2)
    IN  /\ isValidLine(currentLine)
        /\ ~ (nextPos <= Len(str) /\ str[nextPos] = NL)
        /\ ~ listPattern(nextLine)
        /\ (nextPos <= Len(str) /\ str[nextPos] = GT) =>
              /\ (HasNonSpace(afterGT) \/ HasDoubleSpace(afterGT))
              /\ getLevel(currentLine) = getLevel(nextLine)

\* str.replace(/\n/g, callback): every decision is taken on the segment as
\* it was, not on what has been replaced so far
wrapSegment(str) ==
    Concat([i \in 1..Len(str) |->
               IF str[i] = NL /\ softBreakAt(str, i) THEN <<SP, SP, NL>>
               ELSE <<str[i]>>])

\* text.split(rules.renderer.code.pattern): outside, code, outside, ...
RECURSIVE codeBlockSplit(_)
codeBlockSplit(text) ==
    LET open  == IndexOf(text, FENCE)
        close == IF open = 0 THEN 0 ELSE IndexOfFrom(text, FENCE, open + 3)
    IN  IF close = 0 THEN <<text>>
        ELSE <<SubSeq(text, 1, open - 1), SubSeq(text, open, close + 2)>>
                 \o codeBlockSplit(SliceFrom(text, close + 3))

replaceWithSoftLineWraps(text) ==
    LET parts == codeBlockSplit(text)
    IN  Concat([i \in 1..Len(parts) |->
                   IF i % 2 = 0 THEN parts[i] ELSE wrapSegment(parts[i])])

(***************************************************************************)
(* replaceWithSoftLineWraps applied once, and again to its own output, for *)
(* every text of a bounded corpus.                                         *)
(***************************************************************************)
MaxWrapSegs == 5
WrapSegs == {<<"a">>, <<SP>>, <<NL>>, <<GT>>, <<"-">>, FENCE}
WrapCorpus == Texts(WrapSegs, MaxWrapSegs)

InitWrap ==
    /\ pc = "start"
    /\ call = "none"
    /\ src \in WrapCorpus
    /\ result = <<>>

WrapOnce ==
    /\ pc = "start"
    /\ pc' = "once"
    /\ call' = "replaceWithSoftLineWraps"
    /\ result' = <<replaceWithSoftLineWraps(src)>>
    /\ UNCHANGED src

WrapTwice ==
    /\ pc = "once"
    /\ pc' = "twice"
    /\ result' = Append(result, replaceWithSoftLineWraps(result[1]))
    /\ UNCHANGED <<call, src>>

NextWrap == WrapOnce \/ WrapTwice

SpecWrap == InitWrap /\ [][NextWrap]_vars

\* C2: replaceWithSoftLineWraps applied to its own output returns that output
\* unchanged; a newline that carries the break marker gets no second one.
C2_WrapIdempotent == pc = "twice" => result[2] = result[1]

(***************************************************************************)
(* Tokenizer: table rows.                                                  *)
(***************************************************************************)
RECURSIVE TrimEnd(_)
TrimEnd(s) ==
    IF s # <<>> /\ IsSpace(s[Len(s)]) THEN TrimEnd(SubSeq(s, 1, Len(s) - 1))
    ELSE s

\* s.trim()
Trim(s) == TrimEnd(TrimStart(s))

\* the run of backslashes that ends right before position offset
RECURSIVE BackslashRun(_, _)
BackslashRun(str, offset) ==
    IF offset > 1 /\ str[offset - 1] = BS
    THEN 1 + BackslashRun(str, offset - 1) ELSE 0

\* a slip that takes no pipe for escaped
escapedNever(str, offset) == FALSE

\* the while loop of the replace callback: escaped flips once per backslash
escaped(str, offset) == BackslashRun(str, offset) % 2 = 1

\* tableRow.replace(/\|/g, callback): a space before every unescaped pipe
spacePipes(tableRow) ==
    Concat([i \in 1..Len(tableRow) |->
               IF tableRow[i] = PIPE /\ ~ escaped(tableRow, i)
               THEN <<SP, PIPE>> ELSE <<tableRow[i]>>])

\* cell.replace(/\\\|/g, "|")
RECURSIVE unescapePipes(_)
unescapePipes(cell) ==
    LET i == IndexOf(cell, <<BS, PIPE>>)
    IN  IF i = 0 THEN cell
        ELSE SubSeq(cell, 1, i - 1) \o <<PIPE>>
                 \o unescapePipes(SliceFrom(cell, i + 2))

\* cells.splice(count), or the push loop up to count
fitCount(cells, count) ==
    IF count = 0 THEN cells
    ELSE [i \in 1..count |-> IF i <= Len(cells) THEN cells[i] ELSE <<>>]

splitCells(tableRow, count) ==
    LET cells   == Split(spacePipes(tableRow), <<SP, PIPE>>)
        shifted == IF Trim(cells[1]) = <<>> THEN Tail(cells) ELSE cells
        popped  == IF Len(shifted) > 0 /\ Trim(shifted[Len(shifted)]) = <<>>
                   THEN SubSeq(shifted, 1, Len(shifted) - 1) ELSE shifted
        fitted  == fitCount(popped, count)
    IN  [i \in 1..Len(fitted) |-> unescapePipes(Trim(fitted[i]))]

(***************************************************************************)
(* splitCells applied to every row of a bounded corpus.                    *)
(***************************************************************************)
MaxRowSegs == 6
RowSegs == {<<PIPE>>, <<BS>>, <<"a">>, <<SP>>}
RowCorpus == Texts(RowSegs, MaxRowSegs)

InitCells ==
    /\ pc = "start"
    /\ call = "none"
    /\ src \in RowCorpus
    /\ result = <<>>

SplitRow ==
    /\ pc = "start"
    /\ pc' = "done"
    /\ call' = "splitCells"
    /\ result' = splitCells(src, 0)
    /\ UNCHANGED src

NextCells == SplitRow

SpecCells == InitCells /\ [][NextCells]_vars

\* the pipes of a text, those after an odd run of backslashes, and the rest
PipesOf(s) == {i \in 1..Len(s) : s[i] = PIPE}
EscapedPipes(s) == {i \in PipesOf(s) : BackslashRun(s, i) % 2 = 1}
UnescapedPipes(s) == PipesOf(s) \ EscapedPipes(s)

\* the row begins with a pipe and ends with a delimiting one
LeadingAndTrailingPipes(s) ==
    /\ s # <<>>
    /\ s[1] = PIPE
    /\ Len(s) \in UnescapedPipes(s)

\* the number of pipe characters in the cells
RECURSIVE PipesInCells(_)
PipesInCells(cells) ==
    IF cells = <<>> THEN 0
    ELSE Cardinality(PipesOf(cells[1])) + PipesInCells(Tail(cells))

\* C9: a pipe delimits cells exactly when the run of backslashes before it is
\* even: the pipes after an odd run, and only they, are in the cells as
\* literal pipes, and a row with a leading and a trailing delimiting pipe
\* has one cell fewer than it has unescaped pipes.
C9_PipeParity ==
    pc = "done" =>
        /\ PipesInCells(result) = Cardinality(EscapedPipes(src))
        /\ Len(result) <= Cardinality(UnescapedPipes(src)) + 1
        /\ LeadingAndTrailingPipes(src) =>
               Len(result) = Cardinality(UnescapedPipes(src)) - 1

\* a row with leading and trailing pipes and an escaped pipe in a cell
C9_Witness ==
    /\ pc = "done"
    /\ LeadingAndTrailingPipes(src)
    /\ EscapedPipes(src) # {}
    /\ Len(result) = 2

(***************************************************************************)
(* Tokenizer: tables.                                                      *)
(***************************************************************************)
EMPTY == <<"[", "E", "M", "P", "T", "Y", "]">>

\* the first position from p on that holds no \s character
RECURSIVE SkipSpace(_, _)
SkipSpace(s, p) ==
    IF p <= Len(s) /\ IsSpace(s[p]) THEN SkipSpace(s, p + 1) ELSE p

\* the same for [^\S\r\n], whitespace that is no line end
RECURSIVE SkipBlank(_, _)
SkipBlank(s, p) ==
    IF p <= Len(s) /\ s[p] = SP THEN SkipBlank(s, p + 1) ELSE p

\* the position of the line end at or after p, Len(s) + 1 on the last line
LineEnd(s, p) ==
    LET i == IndexOfFrom(s, <<NL>>, p) IN IF i = 0 THEN Len(s) + 1 ELSE i

\* the run of "-" that starts at p
RECURSIVE DashRun(_, _)
DashRun(s, p) ==
    IF p <= Len(s) /\ s[p] = "-" THEN 1 + DashRun(s, p + 1) ELSE 0

\*  *:?-{3,}:? *\| matched at p: the position after its pipe, 0 when it fails
DelimiterCellEnd(s, p) ==
    LET a == SkipBlank(s, p)
        b == IF a <= Len(s) /\ s[a] = ":" THEN a + 1 ELSE a
        n == DashRun(s, b)
        c == b + n
        e == IF c <= Len(s) /\ s[c] = ":" THEN c + 1 ELSE c
        f == SkipBlank(s, e)
    IN  IF n >= 3 /\ f <= Len(s) /\ s[f] = PIPE THEN f + 1 ELSE 0

\* (?: *:?-{3,}:? *\|)+ from p on, greedy: the position after the last cell
RECURSIVE DelimiterCellsEnd(_, _)
DelimiterCellsEnd(s, p) ==
    LET e == DelimiterCellEnd(s, p)
    IN  IF e = 0 THEN p ELSE DelimiterCellsEnd(s, e)

\* ^[^\S\r\n]*\|.*\|[^\S\r\n]* up to a line end, for the line that starts at
\* p: TRUE when the line is a body row
IsRowLine(s, p) ==
    LET a    == SkipBlank(s, p)
        line == TrimEnd(SubSeq(s, a, LineEnd(s, p) - 1))
    IN  Len(line) >= 2 /\ line[1] = PIPE /\ line[Len(line)] = PIPE

\* the body rows, one after the other from the line start p: the position
\* after the last of them (its line end not included)
RECURSIVE RowsEnd(_, _)
RowsEnd(s, p) ==
    LET e == LineEnd(s, p)
    IN  IF e < Len(s) /\ IsRowLine(s, e + 1) THEN RowsEnd(s, e + 1) ELSE e

\* exec returned null; the captures are there so that every capture reads
NoMatch ==
    [matched |-> FALSE, index |-> 0, raw |-> <<>>,
     cap1 |-> <<>>, cap2 |-> <<>>, cap3 |-> <<>>]

\* the one element of a set; a value bound as the element of a one-element
\* set is computed once, however often it is read
The(S) == CHOOSE x \in S : TRUE

\* the captures of rules.renderer.table.pattern for a match that begins at
\* the line start p: h and hEnd are the start and the line end of the header
\* row, cap1 the header row, d and dEnd the start and the end of the
\* delimiter row, rLine the start of the first
\* body row, rows whether there are body rows, rEnd the end of the last one
tableCapture(s, p, h, hEnd, cap1, d, dEnd, rLine, rows, rEnd) ==
    IF /\ h <= Len(s) /\ s[h] = PIPE
       /\ Len(cap1) >= 2 /\ cap1[Len(cap1)] = PIPE
       /\ hEnd <= Len(s)
       /\ dEnd > d + 1
       /\ (rows \/ dEnd > Len(s) \/ s[dEnd] = NL)
    THEN [matched |-> TRUE, index |-> p,
          raw  |-> IF ~ rows THEN SubSeq(s, p, dEnd - 1)
                   ELSE IF rEnd = Len(s) \/ (rEnd < Len(s) /\ s[rEnd + 1] = NL)
                   THEN SubSeq(s, p, rEnd)
                   ELSE SubSeq(s, p, rEnd - 1),
          cap1 |-> cap1,
          cap2 |-> SubSeq(s, d, dEnd - 1),
          cap3 |-> IF ~ rows THEN <<>>
                   ELSE IF rEnd = Len(s) \/ (rEnd < Len(s) /\ s[rEnd + 1] = NL)
                   THEN SubSeq(s, rLine, rEnd)
                   ELSE SubSeq(s, rLine, rEnd - 1)]
    ELSE NoMatch

\* rules.renderer.table.pattern tried with the match starting at the line
\* start p; index is where the match begins and raw is cap[0].  The
\* documents here hold no blank line, so the outer group that captures the
\* body rows is taken at most once.
tablePatternAt(s, p) ==
    The({The({The({The({The({The({The({The({The({
        tableCapture(s, p, h, hEnd, cap1, d, dEnd, rLine, rows, rEnd) :
        rEnd  \in {IF rows THEN RowsEnd(s, rLine) ELSE dEnd}}) :
        rows  \in {/\ IndexOfFrom(SubSeq(s, 1, r - 1), <<NL>>, dEnd) # 0
                   /\ r <= Len(s)
                   /\ IsRowLine(s, rLine)}}) :
        rLine \in {LastIndexOfIn(s, <<NL>>, r - 1) + 1}}) :
        r     \in {SkipSpace(s, dEnd)}}) :
        dEnd  \in {IF d <= Len(s) /\ s[d] = PIPE
                   THEN DelimiterCellsEnd(s, d + 1) ELSE d}}) :
        d     \in {SkipSpace(s, hEnd)}}) :
        cap1  \in {TrimEnd(SubSeq(s, h, hEnd - 1))}}) :
        hEnd  \in {LineEnd(s, h)}}) :
        h     \in {SkipSpace(s, p)}})

\* the line starts of s, where ^ matches under the m flag
LineStarts(s) == {1} \cup {i + 1 : i \in {j \in 1..Len(s) : s[j] = NL}}

\* new RegExp(rules.renderer.table.pattern).exec(src): the leftmost match
tablePattern(s) ==
    LET hits == {p \in LineStarts(s) : tablePatternAt(s, p).matched}
    IN  IF hits = {} THEN NoMatch ELSE tablePatternAt(s, Min(hits))

\* this.rules.other.tableDelimiter, /[:|]/
tableDelimiter(s) == \E i \in 1..Len(s) : s[i] \in {":", PIPE}

\* cap[2].replace(this.rules.other.tableAlignChars, ""): the leading pipe and
\* the last pipe with the spaces after it are dropped
tableAlignChars(s) ==
    LET t == TrimEnd(s)
        a == IF s # <<>> /\ s[1] = PIPE THEN 2 ELSE 1
        b == IF t # <<>> /\ t[Len(t)] = PIPE /\ Len(t) >= a
             THEN Len(t) - 1 ELSE Len(s)
    IN  SubSeq(s, a, b)

\* cap[3].replace(this.rules.other.tableRowBlankLine, ""), /\n[ \t]*$/: a
\* last line that is blank goes, with the line end before it
tableRowBlankLine(s) ==
    LET i == LastIndexOfIn(s, <<NL>>, Len(s))
    IN  IF i # 0 /\ SkipBlank(s, i + 1) > Len(s) THEN SubSeq(s, 1, i - 1)
        ELSE s

\* tableAlignRight, tableAlignCenter, tableAlignLeft on a delimiter cell
alignOf(align) ==
    LET t     == Trim(align)
        left  == t # <<>> /\ t[1] = ":"
        right == Len(t) >= 2 /\ t[Len(t)] = ":"
    IN  IF right /\ ~ left THEN "right"
        ELSE IF right /\ left THEN "center"
        ELSE IF left THEN "left"
        ELSE "null"

\* cell ? cell : "[EMPTY]"
cellText(cell) == IF cell = <<>> THEN EMPTY ELSE cell

\* a slip that lets every pair of rows through
columnsDifferNever(headers, aligns) == FALSE

\* headers.length !== aligns.length
columnsDiffer(headers, aligns) == Len(headers) # Len(aligns)

NoToken == [type |-> "none"]

\* the token built from the capture and the cells of its rows
tableToken(cap, headers, aligns, rows) ==
    IF ~ cap.matched THEN NoToken
    ELSE IF ~ tableDelimiter(cap.cap2) THEN NoToken
    ELSE IF columnsDiffer(headers, aligns) THEN NoToken
    ELSE [type   |-> "table",
          raw    |-> cap.raw,
          header |-> [i \in 1..Len(headers) |-> cellText(headers[i])],
          align  |-> [i \in 1..Len(aligns) |-> alignOf(aligns[i])],
          rows   |-> [k \in 1..Len(rows) |->
                        The({[i \in 1..Len(cells) |-> cellText(cells[i])] :
                             cells \in {splitCells(rows[k], Len(headers))}})]]

\* tokenizer.table from the capture on
tableFromCap(cap) ==
    The({tableToken(cap, headers, aligns, rows) :
           headers \in {splitCells(cap.cap1, 0)},
           aligns  \in {Split(tableAlignChars(cap.cap2), <<PIPE>>)},
           rows    \in {IF Trim(cap.cap3) # <<>>
                        THEN Lines(tableRowBlankLine(cap.cap3)) ELSE <<>>}})

\* tokenizer.table(src)
table(s) == The({tableFromCap(cap) : cap \in {tablePattern(s)}})

(***************************************************************************)
(* tokenizer.table applied to every document of a bounded corpus: a header *)
(* row, a delimiter row, body rows.                                        *)
(***************************************************************************)
MaxCols == 2
MaxBodyRows == 2

\* the sequences of at most n elements of S
RECURSIVE SeqsUpTo(_, _)
SeqsUpTo(S, n) ==
    IF n = 0 THEN {<<>>}
    ELSE LET shorter == SeqsUpTo(S, n - 1)
         IN  shorter \cup {Append(l, x) : l \in shorter, x \in S}

HeaderRows ==
    { <<PIPE, "a", PIPE>>, <<PIPE, "a", PIPE, "b", PIPE>>,
      <<PIPE, "a", BS, PIPE, "b", PIPE>>, <<PIPE, PIPE>>, <<"a", PIPE, "b">> }
DelimiterCells ==
    { <<"-", "-", "-">>, <<":", "-", "-", "-", ":">>, <<"-", "-">>,
      <<SP, "-", "-", "-", ":", SP>> }
DelimiterRows ==
    {<<PIPE>> \o Join(cells, <<PIPE>>) \o <<PIPE>> :
        cells \in SeqsUpTo(DelimiterCells, MaxCols) \ {<<>>}}
      \cup {<<"-", "-", "-">>}
BodyRows ==
    { <<PIPE, "c", PIPE>>, <<PIPE, "c", PIPE, PIPE, "e", PIPE>>, <<"c">> }
TableCorpus ==
    {Join(<<h, d>> \o body, <<NL>>) \o end :
        h \in HeaderRows, d \in DelimiterRows,
        body \in SeqsUpTo(BodyRows, MaxBodyRows), end \in {<<>>, <<NL>>}}

InitTable ==
    /\ pc = "start"
    /\ call = "none"
    /\ src \in TableCorpus
    /\ result = <<>>

TokenizeTable ==
    /\ pc = "start"
    /\ pc' = "done"
    /\ call' = "table"
    /\ result' = table(src)
    /\ UNCHANGED src

NextTable == TokenizeTable

SpecTable == InitTable /\ [][NextTable]_vars

\* the header row and the delimiter row of a document, and their columns
HeaderRow(s) == Lines(s)[1]
DelimiterRow(s) == Lines(s)[2]
Columns(row) == Len(splitCells(row, 0))

\* C8: no token for a document whose header row and delimiter row differ in
\* their number of columns, none for a delimiter row without pipe or colon;
\* a token has as many header cells as alignments, and every body row of it
\* has as many cells as the header.
C8_TableShape ==
    pc = "done" =>
        /\ Columns(HeaderRow(src)) # Columns(DelimiterRow(src))
               => result = NoToken
        /\ ~ tableDelimiter(DelimiterRow(src)) => result = NoToken
        /\ result.type = "table" =>
               /\ Len(result.header) = Len(result.align)
               /\ \A k \in 1..Len(result.rows) :
                      Len(result.rows[k]) = Len(result.header)

\* a token whose body rows had to be cut and to be filled to the header
TableWithFittedRows ==
    /\ pc = "done"
    /\ result.type = "table"
    /\ Len(result.header) = 2
    /\ Len(result.rows) = 2
    /\ \E k \in 1..2 : result.rows[k][2] = EMPTY
    /\ \E k \in 1..2 : Columns(Lines(src)[k + 2]) = 3

\* a document the pattern matches, declined for its columns alone
C8_Witness ==
    /\ pc = "done"
    /\ tablePattern(src).matched
    /\ Columns(HeaderRow(src)) # Columns(DelimiterRow(src))
    /\ result = NoToken

(***************************************************************************)
(* Tokenizer: paragraphs and the fence repair.                             *)
(***************************************************************************)
\* this.rules.other.blockquoteStart, /^ {0,3}>/
blockquoteStart(line) ==
    LET a == SkipBlank(line, 1)
    IN  a <= 4 /\ a <= Len(line) /\ line[a] = GT

\* the lines of the paragraph rule of the base engine, pedantic rules: n
\* lines are taken; the next one is taken too unless it is empty, holds
\* spaces only before a line end, or begins a blockquote
RECURSIVE ParagraphLines(_, _)
ParagraphLines(lines, n) ==
    IF n = Len(lines) THEN n
    ELSE LET line == lines[n + 1]
         IN  IF \/ line = <<>>
                \/ (~ HasNonSpace(line) /\ n + 1 < Len(lines))
                \/ blockquoteStart(line)
             THEN n
             ELSE ParagraphLines(lines, n + 1)

\* this.rules.block.paragraph.exec(src) of the base engine, pedantic rules,
\* for sources of fences, letters, spaces, quote markers and line ends: the
\* first line, which must not be empty, and the lines that go on with it.
\* The length of the capture, 0 when there is no match.
paragraphCapture(s) ==
    LET lines == Lines(s)
    IN  IF s = <<>> \/ s[1] = NL THEN 0
        ELSE Len(Join(SubSeq(lines, 1, ParagraphLines(lines, 1)), <<NL>>))

\* rules.renderer.code.codeBlockOpening, /^```[^\r\n]*\n/
codeBlockOpening(s) == StartsWith(s, FENCE) /\ IndexOfFrom(s, <<NL>>, 4) # 0

\* the index of the first match of a fence pattern; Infinity is one past the
\* last index
FirstIndex(hits, s) == IF hits = {} THEN Len(s) + 1 ELSE Min(hits)

\* /```(?=\n|$)/g.exec(newInput)
indexA(newInput) ==
    FirstIndex({i \in 1..Len(newInput) :
                   /\ OccursAt(newInput, FENCE, i)
                   /\ (i + 3 > Len(newInput) \/ newInput[i + 3] = NL)},
               newInput)

\* /```[^\n]*\n/g.exec(newInput)
indexB(newInput) ==
    FirstIndex({i \in 1..Len(newInput) :
                   /\ OccursAt(newInput, FENCE, i)
                   /\ IndexOfFrom(newInput, <<NL>>, i + 3) # 0},
               newInput)

\* a slip that also repairs on a tie
closingFirstOrTie(a, b) == a <= b

\* indexA < indexB
closingFirst(a, b) == a < b

\* fixCap(cap) for a capture cap0 of input: the capture it returns
fixCap(cap0, input) ==
    LET newInput == SliceFrom(input, Len(cap0) + 1)
        close    == IndexOfFrom(input, FENCE, Len(cap0) + 1)
        content  == SubSeq(input, Len(cap0) + 1, close - 1)
    IN  IF ~ codeBlockOpening(cap0) THEN cap0
        ELSE IF closingFirst(indexA(newInput), indexB(newInput)) /\ close # 0
        THEN cap0 \o content \o FENCE
        ELSE cap0

\* cap[1] without the line end it may end with
withoutLastLineEnd(s) ==
    IF s # <<>> /\ s[Len(s)] = NL THEN SubSeq(s, 1, Len(s) - 1) ELSE s

\* tokenizer.paragraph(src); fixCap reads cap[0] of what exec returned, which
\* is null when the rule does not match
paragraph(s) ==
    LET n   == paragraphCapture(s)
        cap == fixCap(SubSeq(s, 1, n), s)
    IN  IF n = 0 THEN [type |-> "TypeError"]
        ELSE [type |-> "paragraph", raw |-> cap,
              text |-> withoutLastLineEnd(cap),
              tokens |-> withoutLastLineEnd(cap)]

(***************************************************************************)
(* tokenizer.paragraph applied to every document of a bounded corpus of    *)
(* lines with and without fences.                                          *)
(***************************************************************************)
MaxFenceLines == 5
FenceLines ==
    { FENCE, FENCE \o <<"x">>, <<"x">>, <<>>, FENCE \o <<"x">> \o FENCE }
FenceCorpus ==
    {Join(ls, <<NL>>) : ls \in SeqsUpTo(FenceLines, MaxFenceLines) \ {<<>>}}

InitFence ==
    /\ pc = "start"
    /\ call = "none"
    /\ src \in FenceCorpus
    /\ result = <<>>

TokenizeParagraph ==
    /\ pc = "start"
    /\ pc' = "done"
    /\ call' = "paragraph"
    /\ result' = paragraph(src)
    /\ UNCHANGED src

NextFence == TokenizeParagraph

SpecFence == InitFence /\ [][NextFence]_vars

\* what the engine captured, and the source after it
Captured == SubSeq(src, 1, paragraphCapture(src))
Remaining == SliceFrom(src, paragraphCapture(src) + 1)

\* the first fence of the source after the capture opens a block: it has
\* text after it on its line
NextFenceOpens ==
    LET i == IndexOf(Remaining, FENCE)
    IN  i # 0 /\ i + 3 <= Len(Remaining) /\ Remaining[i + 3] # NL

\* a fence alone on the last line of s
EndsAtBareFence(s) ==
    /\ EndsWith(s, FENCE)
    /\ (Len(s) = 3 \/ s[Len(s) - 3] = NL)

Repaired ==
    /\ pc = "done"
    /\ result.type = "paragraph"
    /\ result.raw # Captured

\* a fence alone on its line somewhere in the source after the capture
BareFenceFollows ==
    \E i \in 1..Len(Remaining) :
        /\ OccursAt(Remaining, FENCE, i)
        /\ (i = 1 \/ Remaining[i - 1] = NL)
        /\ (i + 3 > Len(Remaining) \/ Remaining[i + 3] = NL)

blockquoteEmptyLine(line) ==
    /\ line # <<>>
    /\ line[1] = GT
    /\ \A i \in 2..Len(line) : IsSpace(line[i])

\* a slip that tags every bare line, whatever follows it
bothEmptyAlone(current, next) == blockquoteEmptyLine(current)

\* regex.test(current) && regex.test(next)
bothEmpty(current, next) ==
    blockquoteEmptyLine(current) /\ blockquoteEmptyLine(next)

\* the loop of addEmptyPlaceholder from index i down: it reads the line
\* after i as the steps before have left it
RECURSIVE addEmptyPlaceholderFrom(_, _)
addEmptyPlaceholderFrom(blockquotes, i) ==
    IF i < 1 THEN blockquotes
    ELSE addEmptyPlaceholderFrom(
             IF bothEmpty(blockquotes[i], blockquotes[i + 1])
             THEN [blockquotes EXCEPT ![i] = @ \o EMPTY]
             ELSE blockquotes,
             i - 1)

addEmptyPlaceholder(blockquotes) ==
    addEmptyPlaceholderFrom(blockquotes, Len(blockquotes) - 1)

\* this.rules.other.blockquoteSetextReplace2, /^ {0,3}>[ \t]?/gm, on a line
stripQuoteMarker(line) ==
    IF ~ blockquoteStart(line) THEN line
    ELSE LET a == SkipBlank(line, 1)
         IN  IF a < Len(line) /\ line[a + 1] = SP
             THEN SliceFrom(line, a + 2) ELSE SliceFrom(line, a + 1)

\* rtrim(cap[0], "\n")
RECURSIVE rtrim(_)
rtrim(s) ==
    IF s # <<>> /\ s[Len(s)] = NL THEN rtrim(SubSeq(s, 1, Len(s) - 1)) ELSE s

\* the lines this.rules.block.blockquote captures: quote lines, and after a
\* quote line with text the lines that go on with its paragraph.  n lines
\* are taken already; lazy says that a line without marker may follow.
RECURSIVE QuoteCaptureLines(_, _, _)
QuoteCaptureLines(lines, n, lazy) ==
    IF n = Len(lines) THEN n
    ELSE LET line == lines[n + 1]
         IN  IF blockquoteStart(line)
             THEN QuoteCaptureLines(lines, n + 1,
                                    HasNonSpace(stripQuoteMarker(line)))
             ELSE IF lazy /\ HasNonSpace(line)
             THEN QuoteCaptureLines(lines, n + 1, TRUE)
             ELSE n

\* this.rules.block.blockquote.exec(src): cap[0], empty when no match
blockquoteCapture(s) ==
    LET lines == Lines(s)
        n     == QuoteCaptureLines(lines, 0, FALSE)
    IN  Join(SubSeq(lines, 1, n), <<NL>>)
            \o (IF 0 < n /\ n < Len(lines) THEN <<NL>> ELSE <<>>)

\* the inline br rule, /^( {2,}|\\)\n(?!\s*$)/, at the run of spaces that
\* starts at i: the position after the match, 0 when it fails
brEnd(text, i) ==
    LET e == SkipBlank(text, i)
    IN  IF /\ (i = 1 \/ text[i - 1] # SP)
           /\ e >= i + 2 /\ e <= Len(text) /\ text[e] = NL
           /\ HasNonSpace(SliceFrom(text, e + 1))
        THEN e + 1 ELSE 0

\* this.lexer.inline(text): text tokens, and a br token at every hard break
RECURSIVE inline(_)
inline(text) ==
    LET breaks == {i \in 1..Len(text) : brEnd(text, i) # 0}
    IN  IF text = <<>> THEN <<>>
        ELSE IF breaks = {} THEN <<[type |-> "text", text |-> text]>>
        ELSE LET i == Min(breaks)
             IN  (IF i = 1 THEN <<>>
                  ELSE <<[type |-> "text", text |-> SubSeq(text, 1, i - 1)]>>)
                     \o <<[type |-> "br", text |-> <<>>]>>
                     \o inline(SliceFrom(text, brEnd(text, i)))

\* the space rule of the block lexer, /^(?:[ \t]*(?:\n|$))+/: the length of
\* its match at the start of s
RECURSIVE spaceLen(_)
spaceLen(s) ==
    LET e == SkipBlank(s, 1)
    IN  IF s = <<>> THEN 0
        ELSE IF e > Len(s) THEN Len(s)
        ELSE IF s[e] = NL THEN e + spaceLen(SliceFrom(s, e + 1))
        ELSE 0

\* the paragraph token with the inline tokens of its text
paragraphToken(raw, text) ==
    [type |-> "paragraph", raw |-> raw, text |-> text, tokens |-> inline(text)]

RECURSIVE blockquote(_)

\* this.lexer.blockTokens(src, tokens, lastParagraphClipped) for a text of
\* paragraphs, quotes and empty lines: the space rule, tokenizer.blockquote,
\* then tokenizer.paragraph; the source goes on after the raw of the token
RECURSIVE blockTokens(_, _, _)
blockTokens(s, tokens, lastParagraphClipped) ==
    LET k    == spaceLen(s)
        n    == Len(tokens)
    IN  IF s = <<>> THEN tokens
        ELSE IF k = 1 /\ n > 0
        THEN blockTokens(Tail(s),
                 [tokens EXCEPT ![n].raw = @ \o <<NL>>], lastParagraphClipped)
        ELSE IF k > 0
        THEN blockTokens(SliceFrom(s, k + 1),
                 Append(tokens, [type |-> "space", raw |-> SubSeq(s, 1, k),
                                 text |-> <<>>, tokens |-> <<>>]),
                 lastParagraphClipped)
        ELSE IF blockquoteStart(Lines(s)[1])
        THEN The({blockTokens(SliceFrom(s, Len(tok.raw) + 1),
                              Append(tokens, tok), lastParagraphClipped) :
                  tok \in {blockquote(s)}})
        ELSE The({
            IF lastParagraphClipped /\ n > 0 /\ tokens[n].type = "paragraph"
            THEN blockTokens(SliceFrom(s, Len(tok.raw) + 1),
                     [tokens EXCEPT ![n] =
                         paragraphToken(@.raw \o <<NL>> \o tok.raw,
                                        @.text \o <<NL>> \o tok.text)],
                     FALSE)
            ELSE blockTokens(SliceFrom(s, Len(tok.raw) + 1),
                     Append(tokens, paragraphToken(tok.raw, tok.text)), FALSE) :
            tok \in {paragraph(s)}})

\* the for loop of tokenizer.blockquote: how many lines go into currentLines
RECURSIVE currentLinesLen(_, _, _)
currentLinesLen(lines, i, inBlockquote) ==
    IF i > Len(lines) THEN Len(lines)
    ELSE IF blockquoteStart(lines[i]) THEN currentLinesLen(lines, i + 1, TRUE)
    ELSE IF ~ inBlockquote THEN currentLinesLen(lines, i + 1, FALSE)
    ELSE i - 1

\* currentRaw without the quote markers
currentText(currentLines) ==
    Join([i \in 1..Len(currentLines) |-> stripQuoteMarker(currentLines[i])],
         <<NL>>)

\* s without its last n characters
DropLast(s, n) == SubSeq(s, 1, Len(s) - n)

\* the blockquote token
quoteToken(raw, text, tokens) ==
    [type |-> "blockquote", raw |-> raw, text |-> text, tokens |-> tokens]

\* the end of one round of the while loop: lines are the lines left, tokens
\* the tokens so far.  A last token that is a blockquote takes the lines
\* left into itself; after a paragraph or a space the loop goes on.  The
\* block lexer gives no code and no list token here.
RECURSIVE quoteLoop(_, _, _, _)
quoteContinue(lines, raw, text, tokens) ==
    LET oldToken == tokens[Len(tokens)]
        newToken == blockquote(oldToken.raw \o <<NL>> \o Join(lines, <<NL>>))
    IN  IF lines = <<>> THEN quoteToken(raw, text, tokens)
        ELSE IF tokens # <<>> /\ oldToken.type = "blockquote"
        THEN quoteToken(DropLast(raw, Len(oldToken.raw)) \o newToken.raw,
                        DropLast(text, Len(oldToken.text)) \o newToken.text,
                        [tokens EXCEPT ![Len(tokens)] = newToken])
        ELSE quoteLoop(lines, raw, text, tokens)

\* the while loop of tokenizer.blockquote
quoteLoop(lines, raw, text, tokens) ==
    IF lines = <<>> THEN quoteToken(raw, text, tokens)
    ELSE LET i    == currentLinesLen(lines, 1, FALSE)
             cur  == SubSeq(lines, 1, i)
             cRaw == Join(cur, <<NL>>)
             cTxt == currentText(cur)
         IN  The({quoteContinue(SliceFrom(lines, i + 1),
                      IF raw # <<>> THEN raw \o <<NL>> \o cRaw ELSE cRaw,
                      IF text # <<>> THEN text \o <<NL>> \o cTxt ELSE cTxt,
                      toks) :
                  toks \in {blockTokens(cTxt, tokens, TRUE)}})

\* tokenizer.blockquote(src)
blockquote(s) ==
    LET cap0 == blockquoteCapture(s)
    IN  IF cap0 = <<>> THEN NoToken
        ELSE quoteLoop(addEmptyPlaceholder(Lines(rtrim(cap0))),
                       <<>>, <<>>, <<>>)

(***************************************************************************)
(* tokenizer.blockquote applied to every document of a bounded corpus of   *)
(* quote lines, bare quote lines and lines without marker.                 *)
(***************************************************************************)
MaxQuoteLines == 4
QuoteLines ==
    { <<GT, SP, "a">>, <<GT>>, <<GT, SP, "b">>, <<GT, SP>>, <<"c">> }
QuoteCorpus ==
    {Join(ls, <<NL>>) : ls \in SeqsUpTo(QuoteLines, MaxQuoteLines) \ {<<>>}}

InitQuote ==
    /\ pc = "start"
    /\ call = "none"
    /\ src \in QuoteCorpus
    /\ result = <<>>

TokenizeQuote ==
    /\ pc = "start"
    /\ pc' = "done"
    /\ call' = "blockquote"
    /\ result' = blockquote(src)
    /\ UNCHANGED src

NextQuote == TokenizeQuote

SpecQuote == InitQuote /\ [][NextQuote]_vars

\* a quote line with text after its marker
IsContentLine(line) ==
    blockquoteStart(line) /\ HasNonSpace(stripQuoteMarker(line))

\* the document is a content line, one bare quote line, a content line
ContentBareContent ==
    LET lines == Lines(src)
    IN  /\ Len(lines) = 3
        /\ IsContentLine(lines[1])
        /\ blockquoteEmptyLine(lines[2])
        /\ IsContentLine(lines[3])

\* s holds the placeholder text
HoldsEmpty(s) == IndexOf(s, EMPTY) # 0

\* two bare quote lines, one right after the other
AdjacentBareLines(lines) ==
    \E i \in 1..(Len(lines) - 1) :
        blockquoteEmptyLine(lines[i]) /\ blockquoteEmptyLine(lines[i + 1])

\* C6 as stated: a content line, one bare quote line and a content line give
\* one blockquote token with three children, a paragraph, an empty-line
\* placeholder, a paragraph.
C6_PlaceholderForBareLine ==
    (pc = "done" /\ ContentBareContent) =>
        /\ result.type = "blockquote"
        /\ Len(result.tokens) = 3
        /\ result.tokens[1].type = "paragraph"
        /\ HoldsEmpty(result.tokens[2].raw)
        /\ result.tokens[3].type = "paragraph"

\* C6, amended: a content line, one bare quote line and a content line give
\* one blockquote token over the whole document whose children are the
\* paragraph of the first line, a space token for the empty line, and the
\* paragraph of the last line, with no placeholder anywhere; a token holds
\* the placeholder exactly when two bare quote lines follow one another.
C6_SpaceForBareLine ==
    pc = "done" =>
        /\ ContentBareContent =>
               /\ result.type = "blockquote"
               /\ result.raw = src
               /\ Len(result.tokens) = 3
               /\ result.tokens[1].type = "paragraph"
               /\ result.tokens[1].text = stripQuoteMarker(Lines(src)[1])
               /\ result.tokens[2].type = "space"
               /\ result.tokens[3].type = "paragraph"
               /\ result.tokens[3].text = stripQuoteMarker(Lines(src)[3])
               /\ ~ HoldsEmpty(result.text)
        /\ result.type = "blockquote" =>
               (HoldsEmpty(result.raw)
                   <=> AdjacentBareLines(Lines(rtrim(blockquoteCapture(src)))))

\* the three-line quote, tokenized
C6_Witness ==
    /\ pc = "done"
    /\ src = <<GT, SP, "a", NL, GT, NL, GT, SP, "b">>
    /\ result.type = "blockquote"
    /\ result.tokens[2].type = "space"

(***************************************************************************)
(* Renderer: the elements the templates give for the tokens.  An element   *)
(* is its tag name, its data-type, its data-purposes, its own text and its *)
(* child elements.                                                         *)
(***************************************************************************)
Element(tagName, type, purposes, text, children) ==
    [tagName |-> tagName, type |-> type, purposes |-> purposes,
     text |-> text, children |-> children]

\* element[name], with the value the property has when the attribute is
\* not there
Attr(element, name, absent) ==
    IF name \in DOMAIN element THEN element[name] ELSE absent

\* the value of a property that is not there
undefined == <<"undefined">>

\* undefined as a string: in a template literal, as an operand of +
interpolated(value) ==
    IF value = undefined
    THEN <<"u", "n", "d", "e", "f", "i", "n", "e", "d">>
    ELSE value

\* escapeMap[c] || c, for a character after an even run of backslashes
escapeChar(c) ==
    IF c = "<" THEN <<"&", "l", "t", ";">>
    ELSE IF c = GT THEN <<"&", "#", "6", "2", ";">>
    ELSE <<c>>

\* escapeString(str): backslashes stay as they are, and a character after
\* an even run of them goes through the escape map
escapeString(str) ==
    Concat([i \in 1..Len(str) |->
               IF str[i] # BS /\ BackslashRun(str, i) % 2 = 0
               THEN escapeChar(str[i]) ELSE <<str[i]>>])

\* the text a piece of markup has once it is an element's text: the
\* character references of the escape map are characters again
RECURSIVE decodeEntities(_)
decodeEntities(s) ==
    IF s = <<>> THEN <<>>
    ELSE IF StartsWith(s, <<"&", "l", "t", ";">>)
    THEN <<"<">> \o decodeEntities(SliceFrom(s, 5))
    ELSE IF StartsWith(s, <<"&", "#", "6", "2", ";">>)
    THEN <<GT>> \o decodeEntities(SliceFrom(s, 6))
    ELSE <<s[1]>> \o decodeEntities(Tail(s))

\* the node that stands for an exception raised inside a render: the call
\* that holds it emits nothing and ends with the exception
raised == Element("#exception", "", "", <<>>, <<>>)

\* an exception was raised somewhere inside the render of these elements
RECURSIVE threw(_)
threw(elements) ==
    \E i \in 1..Len(elements) :
        elements[i].tagName = "#exception" \/ threw(elements[i].children)

\* element.tagName for the tag names of the templates
upperTag(tag) ==
    CASE tag = "strong" -> "STRONG" [] tag = "em" -> "EM"
      [] tag = "del" -> "DEL" [] tag = "code" -> "CODE"
      [] tag = "div" -> "DIV" [] tag = "p" -> "P" [] tag = "hr" -> "HR"
      [] tag = "span" -> "SPAN" [] tag = "br" -> "BR"
      [] tag = "th" -> "TH" [] tag = "td" -> "TD"
      [] tag = "ol" -> "OL" [] tag = "ul" -> "UL"
      [] OTHER -> tag

\* a span of class markdown-symbol or markdown-structure with its
\* data-position; it has no data-type
positionSpan(position, text) ==
    [tagName |-> "SPAN", type |-> "", purposes |-> "", text |-> text,
     children |-> <<>>, position |-> position]

\* templates.br(type)
templateBr == Element("BR", "br", "breaks", <<>>, <<>>)

\* the br of class empty-placeholder that templates.text puts in the span
emptyPlaceholder == Element("BR", "", "", <<>>, <<>>)

\* templates.text(text)
templateText(text) ==
    IF text = <<>> \/ text = EMPTY
    THEN Element("SPAN", "text", "", <<>>, <<emptyPlaceholder>>)
    ELSE Element("SPAN", "text", "", text, <<>>)

\* replaceOuterSpanRegex(htmlString, newTagName): the opening tag of a span
\* at the very start and the closing tag of a span at the very end get the
\* new name; for content that is one span, that span is renamed
replaceOuterSpanRegex(content, newTagName) ==
    [i \in 1..Len(content) |->
        IF (i = 1 \/ i = Len(content)) /\ content[i].tagName = "SPAN"
        THEN [content[i] EXCEPT !.tagName = upperTag(newTagName)]
        ELSE content[i]]

\* simpleClosedSymbol(type, text, symbol, tag)
simpleClosedSymbol(type, text, symbol, tag) ==
    Element("SPAN", type, "", <<>>,
            <<positionSpan("prefix", symbol)>>
                \o replaceOuterSpanRegex(text, tag)
                \o <<positionSpan("suffix", symbol)>>)

\* raw.split(text)[0]; an empty separator splits between the characters
firstPiece(raw, text) ==
    IF text = <<>>
    THEN (IF raw = <<>> THEN undefined ELSE <<raw[1]>>)
    ELSE Split(raw, text)[1]

\* templates.code(type, content, language)
templateCode(type, content, language) ==
    Element("DIV", type, "", <<>>,
            <<[tagName |-> "PRE", type |-> "", purposes |-> "",
               text |-> decodeEntities(content), children |-> <<>>,
               className |-> <<"markdown-code", SP, "language-">>
                                 \o interpolated(language)]>>)

\* templates.blockquote(type, content)
templateBlockquote(content) ==
    Element("BLOCKQUOTE", "blockquote", "", <<>>, content)

\* templates.paragraph(type, content)
templateParagraph(content) == Element("P", "paragraph", "", <<>>, content)

\* templates.htmlSingle(type, block, content): the escaped tag in a span
\* whose data-type is "prefix", then the tag itself
templateHtmlSingle(type, block, content) ==
    Element(IF block THEN "P" ELSE "SPAN", type, "", <<>>,
            <<Element("SPAN", "prefix", "",
                      decodeEntities(escapeString(content)), <<>>),
              Element(upperTag(content[2]), "", "", <<>>, <<>>)>>)

\* getHTMLTags(htmlStr): rules.renderer.html has no pattern, the regex
\* built from undefined matches the empty string at the start of every
\* text and has no groups
getHTMLTags(htmlStr) ==
    [startTag |-> undefined,
     endTag |-> <<"<", "/">> \o interpolated(undefined) \o <<GT>>]

\* templates.html(block, tags, content, tagName): escapeString reads the
\* length of each tag first
templateHtml(block, tags, content, tagName) ==
    IF tags[1] = undefined \/ tags[2] = undefined THEN raised
    ELSE Element(IF block THEN "DIV" ELSE "SPAN", "custom", "", <<>>,
                 <<Element("SPAN", "prefix", "",
                           decodeEntities(escapeString(tags[1])), <<>>),
                   [tagName |-> upperTag(tagName), type |-> "",
                    purposes |-> "", text |-> <<>>, children |-> content,
                    className |-> <<"markdown-custom-element">>],
                   Element("SPAN", "suffix", "",
                           decodeEntities(escapeString(tags[2])), <<>>)>>)

\* templates.hr(type, raw)
templateHr(type, raw) ==
    [tagName |-> "HR", type |-> type, purposes |-> "", text |-> <<>>,
     children |-> <<>>, raw |-> raw]

\* templates.list(type, body, tag)
templateList(type, body, tag) == Element(upperTag(tag), type, "", <<>>, body)

\* templates.listitem(type, content, isTask = false)
templateListitem(type, content, isTask) ==
    [tagName |-> "LI", type |-> type, purposes |-> "", text |-> <<>>,
     children |-> content,
     className |-> IF isTask THEN <<"task-item">> ELSE <<>>]

\* templates.checkbox(checked)
templateCheckbox(checked) ==
    [tagName |-> "INPUT", type |-> "", purposes |-> "", text |-> <<>>,
     children |-> <<>>, inputType |-> "checkbox", checked |-> checked]

\* templates.heading(type, text, depth, marker)
templateHeading(type, text, depth, marker) ==
    [tagName |-> <<"H1", "H2", "H3", "H4", "H5", "H6">>[depth],
     type |-> type, purposes |-> "", text |-> <<>>, children |-> text,
     id |-> Repeat(<<"#">>, depth) \o marker]

\* templates.table(type, header, body)
templateTable(type, header, body) ==
    Element("TABLE", type, "", <<>>,
            <<Element("THEAD", "", "", <<>>, header)>> \o body)

\* templates.tablerow(text)
templateTablerow(text) == Element("TR", "", "", <<>>, text)

\* templates.tablecell(type, content, align): the align attribute is there
\* when align is given
templateTablecell(type, content, align) ==
    IF align = "null" THEN Element(upperTag(type), "", "", <<>>, content)
    ELSE [tagName |-> upperTag(type), type |-> "", purposes |-> "",
          text |-> <<>>, children |-> content, align |-> align]

\* templates.link(type, text, href, title, structures)
templateLink(type, text, href, title, structures) ==
    Element("SPAN", type, "", <<>>,
            <<positionSpan("prefix", structures[1]),
              [tagName |-> "A", type |-> "", purposes |-> "",
               text |-> <<>>, children |-> text, href |-> href],
              positionSpan("suffix",
                           IF Len(structures) >= 2
                           THEN structures[2] ELSE interpolated(undefined))>>)

\* templates.image(type, alt, href, title, structure)
templateImage(type, alt, href, title, structure) ==
    Element("SPAN", type, "", <<>>,
            <<positionSpan("prefix", structure),
              [tagName |-> "IMG", type |-> "", purposes |-> "",
               text |-> <<>>, children |-> <<>>, href |-> href,
               alt |-> alt]>>)

\* the ceiling concatTexts has when the caller gives none
defaultMaxDepth == 1000

\* the Error concatTexts throws
tooManyNested == <<"Error: There are too many nested tokens.">>

\* concatTexts(tokens, depth = 0, maxDepth = 1000): the call for the nested
\* tokens passes depth + 1 and no ceiling
RECURSIVE concatTexts(_, _, _)
concatTexts(tokens, depth, maxDepth) ==
    IF depth > maxDepth THEN tooManyNested
    ELSE LET parts ==
                 [i \in 1..Len(tokens) |->
                     IF "tokens" \in DOMAIN tokens[i]
                     THEN concatTexts(tokens[i].tokens, depth + 1,
                                      defaultMaxDepth)
                     ELSE Attr(tokens[i], "text", <<>>)]
         IN  IF \E i \in 1..Len(parts) : parts[i] = tooManyNested
             THEN tooManyNested
             ELSE Concat(parts)

\* c.toUpperCase() over the model's letters
toUpperCase(c) ==
    CASE c = "a" -> "A" [] c = "b" -> "B" [] c = "h" -> "H" [] OTHER -> c

\* str.replace(/\s+(.)/g, (_, c) => c.toUpperCase()) for a trimmed text:
\* every run of whitespace has a character after it
RECURSIVE upperAfterSpace(_)
upperAfterSpace(s) ==
    LET e == SkipSpace(s, 1)
    IN  IF s = <<>> THEN <<>>
        ELSE IF ~IsSpace(s[1]) THEN <<s[1]>> \o upperAfterSpace(Tail(s))
        ELSE IF e <= Len(s)
        THEN <<toUpperCase(s[e])>> \o upperAfterSpace(SliceFrom(s, e + 1))
        ELSE s

\* toCamelCase(str)
toCamelCase(str) == upperAfterSpace(Trim(str))

RECURSIVE parse(_)
RECURSIVE parseInline(_)

\* renderer.code({ type, text, language })
rendererCode(token) ==
    templateCode(token.type, escapeString(token.text),
                 Attr(token, "language", undefined))

\* renderer.html(tokens)
rendererHtml(token) ==
    IF token.single
    THEN templateHtmlSingle(token.type, token.block, token.raw)
    ELSE LET tags == getHTMLTags(token.raw)
             content == IF token.block THEN parse(token.tokens)
                        ELSE parseInline(token.tokens)
         IN  templateHtml(token.block, <<tags.startTag, tags.endTag>>,
                          content, token.tag)

\* renderer.checkbox(checked)
rendererCheckbox(checked) == templateCheckbox(checked)

\* renderer.listitem({ type, tokens, task, checked = false })
rendererListitem(token) ==
    IF Attr(token, "task", FALSE)
    THEN templateListitem(
             token.type,
             <<rendererCheckbox(Attr(token, "checked", FALSE))>>
                 \o parse(token.tokens),
             TRUE)
    ELSE templateListitem(token.type, parse(token.tokens), FALSE)

\* renderer.list({ type, items, ordered })
rendererList(token) ==
    templateList(token.type,
                 [i \in 1..Len(token.items) |->
                     rendererListitem(token.items[i])],
                 IF token.ordered THEN "ol" ELSE "ul")

\* renderer.heading({ type, tokens, depth }): nothing catches what
\* concatTexts throws
rendererHeading(token) ==
    LET text == parseInline(token.tokens)
        unmarkedText == concatTexts(token.tokens, 0, defaultMaxDepth)
    IN  IF unmarkedText = tooManyNested THEN raised
        ELSE templateHeading(token.type, text, token.depth,
                             toCamelCase(unmarkedText))

\* renderer.tablerow({ text })
rendererTablerow(row) == templateTablerow(row.text)

\* renderer.tablecell(token)
rendererTablecell(token) ==
    templateTablecell(IF token.header THEN "th" ELSE "td",
                      parseInline(token.tokens), token.align)

\* renderer.table(token)
rendererTable(token) ==
    LET header ==
            rendererTablerow(
                [text |-> [j \in 1..Len(token.header) |->
                              rendererTablecell(token.header[j])]])
        body ==
            [i \in 1..Len(token.rows) |->
                rendererTablerow(
                    [text |-> [k \in 1..Len(token.rows[i]) |->
                                  rendererTablecell(token.rows[i][k])]])]
    IN  templateTable(token.type, <<header>>,
                      IF body = <<>> THEN <<>>
                      ELSE <<Element("TBODY", "", "", <<>>, body)>>)

\* renderer.strong, renderer.em and renderer.del, which are the same code
rendererClosed(token) ==
    simpleClosedSymbol(token.type, parseInline(token.tokens),
                       interpolated(firstPiece(token.raw, token.text)),
                       token.type)

\* renderer.codespan({ type, text, raw })
rendererCodespan(token) ==
    simpleClosedSymbol(
        token.type,
        <<templateText(decodeEntities(escapeString(token.text)))>>,
        interpolated(firstPiece(token.raw, token.text)), "code")

\* renderer.link({ type, text, raw, tokens, href, title = null })
rendererLink(token) ==
    templateLink(token.type, parseInline(token.tokens), token.href,
                 Attr(token, "title", <<>>),
                 IF token.text = <<>>
                 THEN [i \in 1..Len(token.raw) |-> <<token.raw[i]>>]
                 ELSE Split(token.raw, token.text))

\* renderer.image({ type, text, raw, href, title = null })
rendererImage(token) ==
    templateImage(token.type, token.text, token.href,
                  Attr(token, "title", <<>>), token.raw)

\* renderer.text({ text, tokens })
rendererText(token) ==
    IF "tokens" \in DOMAIN token THEN parseInline(token.tokens)
    ELSE <<templateText(token.text)>>

\* this.parser.parseInline(tokens): the renderer method of each token's type
parseInline(tokens) ==
    Concat([i \in 1..Len(tokens) |->
        LET t == tokens[i]
        IN  IF t.type = "br" THEN <<templateBr>>
            ELSE IF t.type \in {"strong", "em", "del"}
            THEN <<rendererClosed(t)>>
            ELSE IF t.type = "codespan" THEN <<rendererCodespan(t)>>
            ELSE IF t.type = "link" THEN <<rendererLink(t)>>
            ELSE IF t.type = "image" THEN <<rendererImage(t)>>
            ELSE IF t.type = "html" THEN <<rendererHtml(t)>>
            ELSE rendererText(t)])

\* this.parser.parse(tokens): the renderer method of each token's type; a
\* space token renders to nothing
parse(tokens) ==
    Concat([i \in 1..Len(tokens) |->
        LET t == tokens[i]
        IN  IF t.type = "paragraph"
            THEN <<templateParagraph(parseInline(t.tokens))>>
            ELSE IF t.type = "blockquote"
            THEN <<templateBlockquote(parse(t.tokens))>>
            ELSE IF t.type = "code" THEN <<rendererCode(t)>>
            ELSE IF t.type = "html" THEN <<rendererHtml(t)>>
            ELSE IF t.type = "hr" THEN <<templateHr(t.type, t.raw)>>
            ELSE IF t.type = "list" THEN <<rendererList(t)>>
            ELSE IF t.type = "heading" THEN <<rendererHeading(t)>>
            ELSE IF t.type = "table" THEN <<rendererTable(t)>>
            ELSE IF t.type = "text" THEN rendererText(t)
            ELSE <<>>])

\* element.textContent
RECURSIVE textContent(_)
textContent(element) ==
    element.text
        \o Concat([i \in 1..Len(element.children) |->
                      textContent(element.children[i])])

(***************************************************************************)
(* Restorer.                                                               *)
(***************************************************************************)
\* restorer.br(element)
restorerBr(element) ==
    IF element.purposes = "breaks" THEN <<SP, SP, NL>> ELSE EMPTY

\* restorer.text(element)
restorerText(element) ==
    IF element.children # <<>> /\ element.children[1].tagName = "BR"
    THEN restorerBr(element.children[1])
    ELSE escapeString(textContent(element))

\* what a handler gives when it reads a property of undefined
TypeError == <<"TypeError">>

\* one of the parts threw
Thrown(parts) == \E i \in 1..Len(parts) : parts[i] = TypeError

\* parts.join(sep) over the values of a map callback: the join never
\* happens when a callback threw, and undefined joins as the empty string
joinParts(parts, sep) ==
    IF Thrown(parts) THEN TypeError
    ELSE Join([i \in 1..Len(parts) |->
                  IF parts[i] = undefined THEN <<>> ELSE parts[i]], sep)

\* the elements below an element, in document order
RECURSIVE descendants(_)
descendants(element) ==
    Concat([i \in 1..Len(element.children) |->
               <<element.children[i]>> \o descendants(element.children[i])])

\* element.querySelectorAll(tag)
querySelectorAll(element, tagName) ==
    LET all == descendants(element)
        hits == {i \in 1..Len(all) : all[i].tagName = tagName}
    IN  [k \in 1..Cardinality(hits) |-> all[SortAsc(hits)[k]]]

\* the value the "language-" class has in pre.className:
\* className.match(/language-(.+)/)?.[1] || ""
languageOf(className) ==
    LET at == {i \in 1..Len(className) :
                  /\ className[i] = "language-"
                  /\ i < Len(className)
                  /\ className[i + 1] # NL}
    IN  IF at = {} THEN <<>>
        ELSE LET rest == SliceFrom(className, Min(at) + 1)
                 nl == IndexOf(rest, <<NL>>)
             IN  IF nl = 0 THEN rest ELSE SubSeq(rest, 1, nl - 1)

\* restorer.code(element)
restorerCode(element) ==
    LET pres == querySelectorAll(element, "PRE")
        language == IF pres = <<>> THEN <<>>
                    ELSE languageOf(Attr(pres[1], "className", <<>>))
        content == IF pres = <<>> THEN <<>>
                   ELSE Trim(textContent(pres[1]))
    IN  FENCE \o language \o <<NL>> \o content \o <<NL>> \o FENCE

\* restorer.hr(element): element.dataset.raw
restorerHr(element) == Attr(element, "raw", undefined)

\* parseInt(element.tagName.charAt(1), 10); NaN repeats nothing
headingDepth(tagName) ==
    CASE tagName = "H1" -> 1 [] tagName = "H2" -> 2 [] tagName = "H3" -> 3
      [] tagName = "H4" -> 4 [] tagName = "H5" -> 5 [] tagName = "H6" -> 6
      [] OTHER -> 0

\* restorer.heading(element)
restorerHeading(element) ==
    Repeat(<<"#">>, headingDepth(element.tagName))
        \o <<SP>> \o textContent(element)

\* `${index + 1}`
RECURSIVE decimal(_)
decimal(n) ==
    LET digit == <<"0", "1", "2", "3", "4", "5", "6", "7", "8", "9">>
    IN  IF n < 10 THEN <<digit[n + 1]>>
        ELSE decimal(n \div 10) \o <<digit[(n % 10) + 1]>>

\* a slip that gives every column the plain delimiter cell
alignCellPlain(th) == <<"-", "-", "-">>

\* th.align turned into its delimiter cell
alignCell(th) ==
    LET align == Attr(th, "align", "")
    IN  IF align = "center" THEN <<":", "-", "-", "-", ":">>
        ELSE IF align = "right" THEN <<"-", "-", "-", ":">>
        ELSE IF align = "left" THEN <<":", "-", "-", "-">>
        ELSE <<"-", "-", "-">>

\* the input[type="checkbox"] elements below an element
checkboxes(element) ==
    LET inputs == querySelectorAll(element, "INPUT")
        hits == {i \in 1..Len(inputs) :
                    Attr(inputs[i], "inputType", "text") = "checkbox"}
    IN  [k \in 1..Cardinality(hits) |-> inputs[SortAsc(hits)[k]]]

\* liElement.querySelector("input[type=\"checkbox\"]")
checkbox(liElement) ==
    LET found == checkboxes(liElement)
    IN  IF found = <<>> THEN <<>> ELSE <<found[1]>>

RECURSIVE elementParser(_, _)
RECURSIVE restorerBlockquote(_, _)
RECURSIVE restorerList(_, _)
RECURSIVE restorerListItem(_, _, _, _)

\* childrenParser(children)
childrenParser(children) ==
    joinParts([i \in 1..Len(children) |->
                  elementParser(children[i].type, children[i])], <<>>)

\* restorer.paragraph(element)
restorerParagraph(element) == childrenParser(element.children)

\* `${prefix}${elementParser(child.dataset.type, child)}`
prefixChild(prefix, text) ==
    IF text = TypeError THEN TypeError ELSE prefix \o interpolated(text)

\* restorer.blockquote(element, depth = 1)
restorerBlockquote(element, depth) ==
    LET prefix == Repeat(<<GT, SP>>, depth)
    IN  joinParts([i \in 1..Len(element.children) |->
                      LET child == element.children[i]
                      IN  IF child.tagName = "BLOCKQUOTE"
                          THEN restorerBlockquote(child, depth + 1)
                          ELSE prefixChild(prefix,
                                   elementParser(child.type, child))],
                  <<NL>> \o prefix \o <<NL>>)

\* restorer.custom(element)
restorerCustom(element) ==
    LET childrens == element.children
    IN  IF childrens = <<>> THEN TypeError
        ELSE LET prefixTag == textContent(childrens[1])
                 suffixTag == IF Len(childrens) >= 3
                              THEN textContent(childrens[3]) ELSE undefined
                 content == IF Len(childrens) >= 2
                            THEN childrenParser(childrens[2].children)
                            ELSE <<>>
             IN  IF content = TypeError THEN TypeError
                 ELSE prefixTag \o content \o interpolated(suffixTag)

\* the depth a handler has when it is called without one: "    ".repeat of
\* it is empty, and it stays what it is when 1 is added
NaN == -1

\* depth + 1
deeper(depth) == IF depth = NaN THEN NaN ELSE depth + 1

\* restorer.list(element, depth = 0)
restorerList(element, depth) ==
    joinParts([i \in 1..Len(element.children) |->
                  restorerListItem(element.children[i], depth,
                                   element.tagName = "OL", i - 1)],
              NLNL)

\* restorer.listItem(liElement, depth, isOrdered = false, index)
restorerListItem(liElement, depth, isOrdered, index) ==
    LET box == checkbox(liElement)
        prefix == (IF isOrdered THEN decimal(index + 1) \o <<".">>
                   ELSE <<"-">>)
                  \o (IF box = <<>> THEN <<>>
                      ELSE <<SP, "[">>
                           \o (IF Attr(box[1], "checked", FALSE) THEN <<"x">> ELSE <<SP>>)
                           \o <<"]">>)
        content ==
            joinParts(
                [i \in 1..Len(liElement.children) |->
                    LET children == liElement.children[i]
                    IN  IF box # <<>> /\ i = 1 THEN <<>>
                        ELSE IF children.tagName \in {"UL", "OL"}
                        THEN LET sub == restorerList(children, deeper(depth))
                             IN  IF sub = TypeError THEN TypeError
                                 ELSE NLNL \o sub
                        ELSE elementParser(children.type, children)],
                <<>>)
    IN  IF content = TypeError THEN TypeError
        ELSE Repeat(<<SP, SP, SP, SP>>, depth) \o prefix \o <<SP>> \o content

\* the cells of a row, restored and joined: .join(" | ")
restorerRow(tr) ==
    joinParts([i \in 1..Len(tr.children) |->
                  childrenParser(tr.children[i].children)],
              <<SP, PIPE, SP>>)

\* restorer.table(element)
restorerTable(element) ==
    LET rows == querySelectorAll(element, "TR")
    IN  IF rows = <<>> THEN TypeError
        ELSE LET header == rows[1]
                 body == Tail(rows)
                 headers == restorerRow(header)
                 aligns == Join([i \in 1..Len(header.children) |->
                                    alignCell(header.children[i])],
                                <<SP, PIPE, SP>>)
                 bodyContent ==
                     joinParts([i \in 1..Len(body) |-> restorerRow(body[i])],
                               <<SP, PIPE, NL, PIPE, SP>>)
             IN  IF headers = TypeError \/ bodyContent = TypeError
                 THEN TypeError
                 ELSE <<PIPE, SP>> \o headers \o <<SP, PIPE, NL>>
                      \o <<PIPE, SP>> \o aligns \o <<SP, PIPE, NL>>
                      \o <<PIPE, SP>> \o bodyContent \o <<SP, PIPE>>

\* the keys of the restorer table
restorerKeys ==
    {"code", "blockquote", "custom", "hr", "list", "listItem", "heading",
     "paragraph", "table", "br", "text", "default"}

\* elementParser(type, element): restorer[type] || restorer.default.  The
\* lookup also finds what the table inherits: restorer["__proto__"] is an
\* object, and calling it throws.
elementParser(type, element) ==
    IF type = "blockquote" THEN restorerBlockquote(element, 1)
    ELSE IF type = "paragraph" THEN restorerParagraph(element)
    ELSE IF type = "br" THEN restorerBr(element)
    ELSE IF type = "text" THEN restorerText(element)
    ELSE IF type = "code" THEN restorerCode(element)
    ELSE IF type = "custom" THEN restorerCustom(element)
    ELSE IF type = "hr" THEN restorerHr(element)
    ELSE IF type = "list" THEN restorerList(element, 0)
    ELSE IF type = "listItem"
    THEN restorerListItem(element, NaN, FALSE, NaN)
    ELSE IF type = "heading" THEN restorerHeading(element)
    ELSE IF type = "table" THEN restorerTable(element)
    ELSE IF type = "__proto__" THEN TypeError
    ELSE escapeString(textContent(element))

(***************************************************************************)
(* restorer.blockquote applied to every blockquote element of a bounded    *)
(* set: children that are paragraphs, with and without a line break, and   *)
(* blockquotes of paragraphs.                                              *)
(***************************************************************************)
MaxQuoteChildren == 2

QuoteParagraphs ==
    { templateParagraph(parseInline(inline(t))) :
        t \in { <<"a">>, <<"a", SP, SP, NL, "b">>, EMPTY } }
InnerQuotes ==
    {templateBlockquote(<<p>>) : p \in QuoteParagraphs}
        \cup {templateBlockquote(<<p, q>>) : p, q \in QuoteParagraphs}
QuoteElements ==
    {templateBlockquote(children) :
        children \in SeqsUpTo(QuoteParagraphs \cup InnerQuotes,
                              MaxQuoteChildren) \ {<<>>}}

InitRestore ==
    /\ pc = "start"
    /\ call = "none"
    /\ src \in QuoteElements
    /\ result = <<>>

RestoreQuote ==
    /\ pc = "start"
    /\ pc' = "done"
    /\ call' = "restorer.blockquote"
    /\ result' = elementParser(src.type, src)
    /\ UNCHANGED src

NextRestore == RestoreQuote

SpecRestore == InitRestore /\ [][NextRestore]_vars

\* C7: every line of a restored blockquote begins with the quote prefix,
\* the lines after the first of a child that restores to several lines too
\* (a paragraph with a line break), and the children are separated by one
\* line that holds the prefix only.
C7_EveryLinePrefixed ==
    pc = "done" =>
        \A i \in 1..Len(Lines(result)) :
            StartsWith(Lines(result)[i], <<GT, SP>>)

(***************************************************************************)
(* The round trip: Markdown.parse, the editor's elements, HTML.parse.      *)
(***************************************************************************)
\* regex.exec(src) in escapeHTMLBlock: both alternatives of the pattern of
\* createHTMLTagsRegex("block") begin with ^<, so only a source that begins
\* with "<" can have a match
blockTagAtStart(s) == StartsWith(s, <<"<">>)

\* newTag.replace(/</g, "&lt;").replace(/>/g, "&gt;")
escapeTag(s) ==
    Concat([i \in 1..Len(s) |->
               IF s[i] = "<" THEN <<"&", "l", "t", ";">>
               ELSE IF s[i] = GT THEN <<"&", "g", "t", ";">>
               ELSE <<s[i]>>])

\* escapeHTMLBlock(src); the documents here hold no "<", the loop over the
\* matches has nothing to replace in them
escapeHTMLBlock(s) == IF blockTagAtStart(s) THEN escapeTag(s) ELSE s

\* Markdown.process(src)
process(s) ==
    mergeListItems(
        splitFromEnd(escapeHTMLBlock(replaceWithSoftLineWraps(s)), NLNL))

\* a slip that tags the blank items only
processedBlankOnly(item) ==
    IF Trim(item) = <<>> THEN item \o EMPTY ELSE item

\* processList: the item as it is handed to marked.parse
processed(item) ==
    IF Trim(item) = <<>> \/ EndsWith(item, <<NL>>) THEN item \o EMPTY
    ELSE item

\* marked.parse(processed): the elements of the chunk
markedParse(item) == parse(blockTokens(processed(item), <<>>, FALSE))

\* the children of the editor: the elements of all chunks, in order
editorChildren(chunks) ==
    Concat([i \in 1..Len(chunks) |-> markedParse(chunks[i])])

\* HTML.parse(element) for the editor element
htmlParse(children) ==
    [i \in 1..Len(children) |-> elementParser(children[i].type, children[i])]

MaxBlocks == 2
\* paragraphs and blockquotes, of one line and of several
Blocks ==
    { <<"a">>, <<"a", NL, "b">>, <<GT, SP, "a">>,
      <<GT, SP, "a", NL, GT, SP, "b">>,
      <<GT, SP, "a", NL, GT, NL, GT, SP, "b">>,
      <<GT, SP, "a", NL, "b">> }
Documents ==
    {Join(bs, NLNL) : bs \in SeqsUpTo(Blocks, MaxBlocks) \ {<<>>}}

InitRound ==
    /\ pc = "start"
    /\ call = "none"
    /\ src \in Documents
    /\ result = <<>>

Preprocess ==
    /\ pc = "start"
    /\ pc' = "processed"
    /\ call' = "Markdown.process"
    /\ result' = process(src)
    /\ UNCHANGED src

Render ==
    /\ pc = "processed"
    /\ pc' = "rendered"
    /\ call' = "processList"
    /\ result' = editorChildren(result)
    /\ UNCHANGED src

Restore ==
    /\ pc = "rendered"
    /\ pc' = "restored"
    /\ call' = "HTML.parse"
    /\ result' = htmlParse(result)
    /\ UNCHANGED src

NextRound == Preprocess \/ Render \/ Restore

SpecRound == InitRound /\ [][NextRound]_vars

\* whitespace at the end of a line does not count: the two spaces of a soft
\* break, the space of a bare quote prefix
Normalized(s) ==
    Join([i \in 1..Len(Lines(s)) |-> TrimEnd(Lines(s)[i])], <<NL>>)

\* C1: the blocks restored from the rendered document, joined with empty
\* lines, are the document again, whitespace at line ends aside.
C1_RoundTrip ==
    pc = "restored" => Normalized(Join(result, NLNL)) = Normalized(src)

(***************************************************************************)
(* elementParser applied to every node of a bounded set of node trees:     *)
(* every type marker, known, unknown and missing, over every list of at    *)
(* most MaxNodeChildren children.                                          *)
(***************************************************************************)
MaxNodeChildren == 3

NodeTypes ==
    restorerKeys \cup {"", "foo", "list_item", "__proto__"}

\* a span of text, a break, a table row of one header cell, a pre, a list
\* item without children
NodeChildren ==
    { templateText(<<"a", "<">>),
      templateBr,
      Element("TR", "", "", <<>>,
              <<Element("TH", "", "", <<>>, <<templateText(<<"a">>)>>)>>),
      Element("PRE", "", "", <<"a">>, <<>>),
      Element("LI", "list_item", "", <<>>, <<>>) }

NodeTrees ==
    { Element("DIV", type, "", <<>>, children) :
        type \in NodeTypes,
        children \in SeqsUpTo(NodeChildren, MaxNodeChildren) }

InitNodes ==
    /\ pc = "start"
    /\ call = "none"
    /\ src \in NodeTrees
    /\ result = <<>>

RestoreNode ==
    /\ pc = "start"
    /\ pc' = "done"
    /\ call' = "elementParser"
    /\ result' = elementParser(src.type, src)
    /\ UNCHANGED src

NextNodes == RestoreNode

SpecNodes == InitNodes /\ [][NextNodes]_vars

\* C11: elementParser never throws and always gives a string, whatever the
\* type marker and the children of the node are, and a node whose type has
\* no handler is restored as the escaped text of the node.
C11_RestorerNeverThrows ==
    pc = "done" =>
        /\ result # TypeError
        /\ result # undefined
        /\ src.type \notin restorerKeys =>
               result = escapeString(textContent(src))

(***************************************************************************)
(* processList: list.map starts one marked.parse per chunk, each a promise *)
(* that is fulfilled at some later turn of the scheduler, in any order;    *)
(* Promise.all collects the values and resolves when none is pending.      *)
(* result holds the state of the promises, the order in which they were    *)
(* fulfilled, and the values array of Promise.all.                         *)
(***************************************************************************)
MaxParallel == 3

ParallelChunks == { <<"a">>, <<GT, SP, "a">>, <<>> }
ChunkBatches == SeqsUpTo(ParallelChunks, MaxParallel)

\* the index under which Promise.all stores the value of the promise at
\* position index, whatever was settled before it
valueSlotByCompletion(index, settled) == Len(settled) + 1

valueSlot(index, settled) == index

InitParallel ==
    /\ pc = "start"
    /\ call = "none"
    /\ src \in ChunkBatches
    /\ result = <<>>

\* const promises = list.map(item => { ...; return marked.parse(processed) })
DispatchAll ==
    /\ pc = "start"
    /\ pc' = "dispatched"
    /\ call' = "processList"
    /\ result' = [promises |-> [i \in 1..Len(src) |-> "pending"],
                  settled |-> <<>>,
                  values |-> [i \in 1..Len(src) |-> <<>>]]
    /\ UNCHANGED src

\* one marked.parse is fulfilled with the rendering of its chunk
Complete ==
    /\ pc = "dispatched"
    /\ \E i \in 1..Len(src) :
          /\ result.promises[i] = "pending"
          /\ result' =
                [promises |-> [result.promises EXCEPT ![i] = "fulfilled"],
                 settled |-> Append(result.settled, i),
                 values |-> [result.values EXCEPT
                                ![valueSlot(i, result.settled)] =
                                    markedParse(src[i])]]
    /\ call' = "marked.parse"
    /\ UNCHANGED <<pc, src>>

\* return await Promise.all(promises)
ResolveAll ==
    /\ pc = "dispatched"
    /\ \A i \in 1..Len(src) : result.promises[i] = "fulfilled"
    /\ pc' = "resolved"
    /\ call' = "Promise.all"
    /\ UNCHANGED <<src, result>>

NextParallel == DispatchAll \/ Complete \/ ResolveAll

SpecParallel == InitParallel /\ [][NextParallel]_vars

codePattern(s, lastIndex) ==
    LET open  == IF lastIndex > Len(s) THEN 0
                 ELSE IndexOfFrom(s, FENCE, lastIndex + 1)
        close == IF open = 0 THEN 0 ELSE IndexOfFrom(s, FENCE, open + 3)
    IN  IF close = 0
        THEN [matched |-> FALSE, index |-> 0, raw |-> <<>>, lastIndex |-> 0]
        ELSE [matched |-> TRUE, index |-> open,
              raw |-> SubSeq(s, open, close + 2), lastIndex |-> close + 2]

\* parseCodeBlock(code): rules.renderer.code.separateLanguageAndCode,
\* /^```([^\n]*)\n([\s\S]*?)\n```$/, and the fallback that strips the fences
parseCodeBlock(code) ==
    LET inner == SubSeq(code, 4, Len(code) - 3)
        first == IndexOf(inner, <<NL>>)
    IN  IF first # 0 /\ first < Len(inner) /\ inner[Len(inner)] = NL
        THEN [language |-> Trim(SubSeq(inner, 1, first - 1)),
              content  |-> SubSeq(inner, first + 1, Len(inner) - 1)]
        ELSE [language |-> <<>>, content |-> inner]

\* tokenizer.code(src)
code(s, lastIndex) ==
    LET cap == codePattern(s, lastIndex)
    IN  IF ~ cap.matched THEN NoToken
        ELSE [type |-> "code", raw |-> cap.raw, index |-> cap.index,
              text |-> parseCodeBlock(cap.raw).content,
              language |-> parseCodeBlock(cap.raw).language]

\* the names of the tags, each one symbol of a text: block tags that are
\* not void, block tags that are void, tags that are neither
blockCloseTags == {"div", "p"}
blockVoidTags == {"hr"}
inlineCloseTags == {"span"}
inlineVoidTags == {"br"}

\* (\s[^>]*?)?> after the tag name at position p - 1, with \/? before the >
\* for a void tag: the position of the >, 0 when there is none
tagClose(s, p, void) ==
    LET gt == IndexOfFrom(s, <<GT>>, p)
    IN  IF gt = 0 THEN 0
        ELSE IF gt = p THEN gt
        ELSE IF IsSpace(s[p]) THEN gt
        ELSE IF void /\ gt = p + 1 /\ s[p] = "/" THEN gt
        ELSE 0

\* createHTMLTagsRegex: ^<(closeTags)(\s[^>]*?)?>([\s\S]*?)<\/\2> or
\* ^<(voidElements)(\s[^>]*?)?\/?>.  The content is taken lazily: it ends
\* before the first closing tag of the name.
htmlPattern(s, closeTags, voidElements) ==
    LET gt    == IF Len(s) >= 3 /\ s[1] = "<"
                 THEN tagClose(s, 3, s[2] \in voidElements) ELSE 0
        close == IF gt = 0 THEN 0
                 ELSE IndexOfFrom(s, <<"<", "/", s[2], GT>>, gt + 1)
    IN  IF gt # 0 /\ s[2] \in closeTags /\ close # 0
        THEN [matched |-> TRUE, raw |-> SubSeq(s, 1, close + 3),
              tag |-> s[2], paired |-> TRUE,
              cap4 |-> SubSeq(s, gt + 1, close - 1)]
        ELSE IF gt # 0 /\ s[2] \in voidElements
        THEN [matched |-> TRUE, raw |-> SubSeq(s, 1, gt),
              tag |-> s[2], paired |-> FALSE, cap4 |-> <<>>]
        ELSE [matched |-> FALSE, raw |-> <<>>, tag |-> "", paired |-> FALSE,
              cap4 |-> <<>>]

\* the token of tokenizer.html and tokenizer.tag for a capture; its tokens
\* are those the lexer gives for text
htmlToken(cap, block) ==
    [type |-> "html", raw |-> cap.raw, block |-> block,
     single |-> cap.cap4 = <<>>, tag |-> cap.tag, text |-> cap.cap4]

\* tokenizer.html(src)
html(s) ==
    LET cap == htmlPattern(s, blockCloseTags, blockVoidTags)
    IN  IF cap.matched THEN htmlToken(cap, TRUE) ELSE NoToken

\* tokenizer.tag(src)
tag(s) ==
    LET cap == htmlPattern(s, inlineCloseTags, inlineVoidTags)
    IN  IF html(s) # NoToken THEN html(s)
        ELSE IF cap.matched THEN htmlToken(cap, FALSE)
        ELSE NoToken

\* the ends of the contents that rules.marked.del.pattern can take from
\* position p on: (?:\\.|[^\\])*? and then (?:\\.|[^\s~\\])
RECURSIVE delContentEnds(_, _)
delContentEnds(s, p) ==
    IF p > Len(s) THEN {}
    ELSE IF s[p] = BS
    THEN IF p + 1 <= Len(s) /\ s[p + 1] # NL
         THEN {p + 1} \cup delContentEnds(s, p + 2)
         ELSE {}
    ELSE (IF IsSpace(s[p]) \/ s[p] = "~" THEN {} ELSE {p})
             \cup delContentEnds(s, p + 1)

\* the pattern with a delimiter of k tildes: the end of the match, 0 when
\* there is none
delEnd(s, k) ==
    LET delimiter == Repeat(<<"~">>, k)
        ends == {e \in delContentEnds(s, k + 1) :
                    /\ OccursAt(s, delimiter, e + 1)
                    /\ (e + k = Len(s) \/ s[e + k + 1] # "~")}
    IN  IF /\ StartsWith(s, delimiter)
           /\ Len(s) > k /\ ~ IsSpace(s[k + 1]) /\ s[k + 1] # "~"
           /\ ends # {}
        THEN Min(ends) + k ELSE 0

\* tokenizer.del(src): rules.marked.del.pattern,
\* /^(~~?)(?=[^\s~])((?:\\.|[^\\])*?(?:\\.|[^\s~\\]))\1(?=[^~]|$)/
del(s) ==
    LET k == IF delEnd(s, 2) # 0 THEN 2 ELSE 1
        e == delEnd(s, k)
    IN  IF e = 0 THEN NoToken
        ELSE [type |-> "del", raw |-> SubSeq(s, 1, e),
              text |-> SubSeq(s, k + 1, e - k),
              tokens |-> inline(SubSeq(s, k + 1, e - k))]

(***************************************************************************)
(* Every tokenizer extension applied to every source of a bounded corpus:  *)
(* the lexer calls each of them with the source that is left.              *)
(***************************************************************************)
MaxTokenSegs == 3

TokenSegs ==
    { <<"a">>, <<"a", NL>>, <<GT, NL>>, <<GT, SP, "a">>, FENCE, <<"~">>,
      <<"<", "div", GT>>, <<"<", "/", "div", GT>>,
      <<PIPE, "h", PIPE, NL>>, <<PIPE, "-", "-", "-", PIPE>> }
TokenCorpus == Texts(TokenSegs, MaxTokenSegs)

InitTokens ==
    /\ pc = "start"
    /\ call = "none"
    /\ src \in TokenCorpus
    /\ result = <<>>

CallParagraph ==
    /\ pc = "start"
    /\ pc' = "done"
    /\ call' = "paragraph"
    /\ result' = paragraph(src)
    /\ UNCHANGED src

\* the pattern of tokenizer.code holds the lastIndex of the call before
CallCode ==
    /\ pc = "start"
    /\ pc' = "done"
    /\ call' = "code"
    /\ \E lastIndex \in 0..Len(src) : result' = code(src, lastIndex)
    /\ UNCHANGED src

\* the sources whose quoted content the block lexer of the model can take:
\* paragraphs, blank lines and quotes
CallBlockquote ==
    /\ pc = "start"
    /\ \A i \in 1..Len(src) : src[i] \in {GT, SP, NL, "a"}
    /\ pc' = "done"
    /\ call' = "blockquote"
    /\ result' = blockquote(src)
    /\ UNCHANGED src

CallHtml ==
    /\ pc = "start"
    /\ pc' = "done"
    /\ call' = "html"
    /\ result' = html(src)
    /\ UNCHANGED src

CallTag ==
    /\ pc = "start"
    /\ pc' = "done"
    /\ call' = "tag"
    /\ result' = tag(src)
    /\ UNCHANGED src

CallTable ==
    /\ pc = "start"
    /\ pc' = "done"
    /\ call' = "table"
    /\ result' = table(src)
    /\ UNCHANGED src

CallDel ==
    /\ pc = "start"
    /\ pc' = "done"
    /\ call' = "del"
    /\ result' = del(src)
    /\ UNCHANGED src

NextTokens ==
    \/ CallParagraph \/ CallCode \/ CallBlockquote \/ CallHtml
    \/ CallTag \/ CallTable \/ CallDel

SpecTokens == InitTokens /\ [][NextTokens]_vars

\* C13: the raw of every token a tokenizer extension returns is a prefix of
\* the source it was called with.
C13_RawIsPrefix ==
    pc = "done" /\ result.type \notin {"none", "TypeError"} =>
        IsPrefixOf(result.raw, src)


(***************************************************************************)
(* The renderer applied to one token of every type it handles: through     *)
(* parser.parse for the block tokens, through parser.parseInline for the   *)
(* inline ones, and the methods renderer.table and renderer.list call for  *)
(* the rows, the cells and the items.                                      *)
(***************************************************************************)
\* the cell objects tokenizer.table puts into header and rows
tableCell(text, header, align) ==
    [text |-> text, tokens |-> inline(text), header |-> header,
     align |-> align]

\* the table token with its cells as objects
withCells(token) ==
    [token EXCEPT
        !.header = [i \in 1..Len(token.header) |->
                       tableCell(token.header[i], TRUE, token.align[i])],
        !.rows = [k \in 1..Len(token.rows) |->
                     [i \in 1..Len(token.rows[k]) |->
                         tableCell(token.rows[k][i], FALSE, token.align[i])]]]

MaxHeadingDepth == 2

RenderTexts == {<<"a">>, <<"b">>, <<"a", "<">>}

textToken(text) == [type |-> "text", raw |-> text, text |-> text]

\* the inline tokens the engine gives for *x*, **x**, ~~x~~, `x`, `` x ``
\* (the code span's text is without the one space of padding), [x](u),
\* ![x](u), a hard break, and the tag extension's tokens
InlineTokens ==
    UNION {
        { textToken(x),
          [type |-> "em", raw |-> <<"*">> \o x \o <<"*">>, text |-> x,
           tokens |-> <<textToken(x)>>],
          [type |-> "strong", raw |-> <<"*", "*">> \o x \o <<"*", "*">>,
           text |-> x, tokens |-> <<textToken(x)>>],
          [type |-> "del", raw |-> <<"~", "~">> \o x \o <<"~", "~">>,
           text |-> x, tokens |-> <<textToken(x)>>],
          [type |-> "codespan", raw |-> <<BT>> \o x \o <<BT>>, text |-> x],
          [type |-> "codespan",
           raw |-> <<BT, BT, SP>> \o x \o <<SP, BT, BT>>, text |-> x],
          [type |-> "link",
           raw |-> <<"[">> \o x \o <<"]", "(", "u", ")">>,
           text |-> x, href |-> <<"u">>, tokens |-> <<textToken(x)>>],
          [type |-> "image",
           raw |-> <<"!", "[">> \o x \o <<"]", "(", "u", ")">>,
           text |-> x, href |-> <<"u">>] } : x \in RenderTexts }
    \cup { [type |-> "br", raw |-> <<SP, SP, NL>>],
           tag(<<"<", "br", GT>>) @@ [tokens |-> <<>>],
           tag(<<"<", "span", GT, "a", "<", "/", "span", GT>>)
               @@ [tokens |-> inline(<<"a">>)] }

listItemToken(task, checked, text) ==
    [type |-> "list_item", raw |-> <<"-", SP>> \o text, task |-> task,
     checked |-> checked, text |-> text,
     tokens |-> <<[type |-> "text", raw |-> text, text |-> text,
                   tokens |-> <<textToken(text)>>]>>]

ListItemTokens ==
    { listItemToken(task, checked, x) :
        task \in BOOLEAN, checked \in BOOLEAN, x \in RenderTexts }

TableTokens ==
    { withCells(table(<<PIPE, "h", PIPE, NL, PIPE>> \o d \o <<PIPE>> \o r)) :
        d \in {<<"-", "-", "-">>, <<":", "-", "-", "-", ":">>},
        r \in {<<>>, <<NL, PIPE, "a", PIPE>>} }

BlockTokens ==
    UNION {
        { paragraphToken(x, x),
          [type |-> "blockquote", raw |-> <<GT, SP>> \o x, text |-> x,
           tokens |-> <<paragraphToken(x, x)>>],
          [type |-> "code", raw |-> FENCE \o <<NL>> \o x \o <<NL>> \o FENCE,
           text |-> x, language |-> <<>>] } : x \in RenderTexts }
    \cup { [type |-> "heading", raw |-> Repeat(<<"#">>, d) \o <<SP>> \o x,
            depth |-> d, text |-> x, tokens |-> <<textToken(x)>>] :
             d \in 1..MaxHeadingDepth, x \in RenderTexts }
    \cup { [type |-> "list", raw |-> item.raw, ordered |-> ordered,
            items |-> <<item>>] :
             ordered \in BOOLEAN, item \in ListItemTokens }
    \cup TableTokens
    \cup { [type |-> "hr", raw |-> <<"-", "-", "-">>],
           html(<<"<", "hr", GT>>) @@ [tokens |-> <<>>],
           html(<<"<", "div", GT, "a", "<", "/", "div", GT>>)
               @@ [tokens |-> <<paragraphToken(<<"a">>, <<"a">>)>>] }

\* the rows and the cells of the tables
TableRows ==
    UNION {{[cells |-> t.header]}
               \cup {[cells |-> t.rows[k]] : k \in 1..Len(t.rows)} :
           t \in TableTokens}
TableCells ==
    UNION {{row.cells[i] : i \in 1..Len(row.cells)} : row \in TableRows}

InitRender ==
    /\ pc = "start"
    /\ call = "none"
    /\ src \in BlockTokens \cup InlineTokens \cup ListItemTokens
                  \cup TableRows \cup TableCells
    /\ result = <<>>

\* what the call gives: the elements, or the exception alone
emitted(elements) == IF threw(elements) THEN <<raised>> ELSE elements

RenderBlock ==
    /\ pc = "start"
    /\ src \in BlockTokens
    /\ pc' = "done"
    /\ call' = "parser.parse"
    /\ result' = emitted(parse(<<src>>))
    /\ UNCHANGED src

RenderInline ==
    /\ pc = "start"
    /\ src \in InlineTokens
    /\ pc' = "done"
    /\ call' = "parser.parseInline"
    /\ result' = emitted(parseInline(<<src>>))
    /\ UNCHANGED src

RenderListitem ==
    /\ pc = "start"
    /\ src \in ListItemTokens
    /\ pc' = "done"
    /\ call' = "renderer.listitem"
    /\ result' = emitted(<<rendererListitem(src)>>)
    /\ UNCHANGED src

RenderTablerow ==
    /\ pc = "start"
    /\ src \in TableRows
    /\ pc' = "done"
    /\ call' = "renderer.tablerow"
    /\ result' = emitted(<<rendererTablerow(
                      [text |-> [i \in 1..Len(src.cells) |->
                                    rendererTablecell(src.cells[i])]])>>)
    /\ UNCHANGED src

RenderTablecell ==
    /\ pc = "start"
    /\ src \in TableCells
    /\ pc' = "done"
    /\ call' = "renderer.tablecell"
    /\ result' = emitted(<<rendererTablecell(src)>>)
    /\ UNCHANGED src

NextRender ==
    \/ RenderBlock \/ RenderInline \/ RenderListitem
    \/ RenderTablerow \/ RenderTablecell

SpecRender == InitRender /\ [][NextRender]_vars

\* C14: the element emitted for a token has a data-type, and it is the
\* type of the token when the token has one (rows and cells have none).
C14_TypeMarker ==
    pc = "done" =>
        /\ Len(result) = 1
        /\ result[1].type # ""
        /\ call \notin {"renderer.tablerow", "renderer.tablecell"} =>
               result[1].type = src.type


\* C15: for a strong, em, del or codespan token, the text of the prefix
\* marker, then the token's text, then the text of the suffix marker is the
\* token's raw.
C15_DelimitersPreserved ==
    pc = "done" /\ call = "parser.parseInline"
                /\ src.type \in {"strong", "em", "del", "codespan"} =>
        LET markers == result[1].children
        IN  markers[1].text \o src.text \o markers[Len(markers)].text
                = src.raw


(***************************************************************************)
(* The empty-line sentinel: what processList hands to the engine for every *)
(* chunk of a bounded corpus, and what templates.text gives for every text *)
(* of it.                                                                  *)
(***************************************************************************)
MaxItemLen == 3

ItemTexts == Texts({<<SP>>, <<NL>>, <<"a">>}, MaxItemLen) \cup {EMPTY}

InitSentinel ==
    /\ pc = "start"
    /\ call = "none"
    /\ src \in ItemTexts
    /\ result = <<>>

ProcessItem ==
    /\ pc = "start"
    /\ pc' = "done"
    /\ call' = "processList"
    /\ result' = processed(src)
    /\ UNCHANGED src

RenderText ==
    /\ pc = "start"
    /\ pc' = "done"
    /\ call' = "templates.text"
    /\ result' = <<templateText(src)>>
    /\ UNCHANGED src

NextSentinel == ProcessItem \/ RenderText

SpecSentinel == InitSentinel /\ [][NextSentinel]_vars

\* the text is empty or of whitespace only
IsBlank(s) == \A i \in 1..Len(s) : IsSpace(s[i])

\* C16: the text handed to the engine is the chunk with one [EMPTY] after
\* it when the chunk is blank or ends with a newline, and the chunk itself
\* otherwise; the text [EMPTY] and the empty text render to a span that
\* holds the empty-line placeholder.
C16_EmptySentinel ==
    /\ pc = "done" /\ call = "processList" =>
           result = IF IsBlank(src) \/ src[Len(src)] = NL
                    THEN src \o EMPTY ELSE src
    /\ pc = "done" /\ call = "templates.text" /\ src \in {<<>>, EMPTY} =>
           /\ result[1].tagName = "SPAN"
           /\ result[1].text = <<>>
           /\ result[1].children = <<emptyPlaceholder>>

\* a chunk that ends with a newline after text got its sentinel
C16_Witness ==
    /\ pc = "done" /\ call = "processList"
    /\ src = <<"a", NL>>
    /\ result = <<"a", NL>> \o EMPTY


(***************************************************************************)
(* tokenizer.html applied to every source built from opening and closing   *)
(* block tags and text.                                                    *)
(***************************************************************************)
MaxHtmlSegs == 4

HtmlSegs ==
    { <<"<", "div", GT>>, <<"<", "/", "div", GT>>,
      <<"<", "p", GT>>, <<"<", "/", "p", GT>>, <<"a">> }

HtmlCorpus == Texts(HtmlSegs, MaxHtmlSegs)

InitHtml ==
    /\ pc = "start"
    /\ call = "none"
    /\ src \in HtmlCorpus
    /\ result = <<>>

TokenizeHtml ==
    /\ pc = "start"
    /\ pc' = "done"
    /\ call' = "tokenizer.html"
    /\ result' = html(src)
    /\ UNCHANGED src

NextHtml == TokenizeHtml

SpecHtml == InitHtml /\ [][NextHtml]_vars

\* an opening tag, a closing tag of the name at position i
IsOpening(s, i, name) ==
    i + 2 <= Len(s) /\ s[i] = "<" /\ s[i + 1] = name /\ s[i + 2] = GT
IsClosing(s, i, name) ==
    /\ i + 3 <= Len(s)
    /\ s[i] = "<" /\ s[i + 1] = "/" /\ s[i + 2] = name /\ s[i + 3] = GT

\* the end of the closing tag that takes the count of open tags of the
\* name from depth to 0, from position i on; 0 when there is none
RECURSIVE BalanceFrom(_, _, _, _)
BalanceFrom(s, i, name, depth) ==
    IF i > Len(s) THEN 0
    ELSE IF IsClosing(s, i, name)
    THEN (IF depth = 1 THEN i + 3
          ELSE BalanceFrom(s, i + 4, name, depth - 1))
    ELSE IF IsOpening(s, i, name)
    THEN BalanceFrom(s, i + 3, name, depth + 1)
    ELSE BalanceFrom(s, i + 1, name, depth)

\* the end of the closing tag that balances the paired block tag the
\* source begins with; 0 when the source does not begin with one or the
\* tag is never balanced
BalancedEnd(s) ==
    IF Len(s) >= 3 /\ s[2] \in blockCloseTags /\ IsOpening(s, 1, s[2])
    THEN BalanceFrom(s, 4, s[2], 1) ELSE 0

\* C17: for a source that begins with a paired block tag, the raw of the
\* html token ends at the closing tag that balances the opening one.
C17_BalancedCapture ==
    pc = "done" /\ BalancedEnd(src) # 0 =>
        /\ result.type = "html"
        /\ result.raw = SubSeq(src, 1, BalancedEnd(src))


(***************************************************************************)
(* A table through the tokenizer, the renderer, the restorer and the       *)
(* tokenizer again, for every choice of the alignments of its columns.     *)
(***************************************************************************)
MaxAlignCols == 3

\* the delimiter cells for no alignment, left, right and center
AlignCells ==
    { <<"-", "-", "-">>, <<":", "-", "-", "-">>, <<"-", "-", "-", ":">>,
      <<":", "-", "-", "-", ":">> }

\* | c1 | c2 | ...
RowOf(cells) == <<PIPE>> \o Join(cells, <<PIPE>>) \o <<PIPE>>

AlignTables ==
    { RowOf([i \in 1..Len(ds) |-> <<"h">>]) \o <<NL>> \o RowOf(ds) \o body :
        ds \in SeqsUpTo(AlignCells, MaxAlignCols) \ {<<>>},
        body \in {<<>>, <<NL, PIPE, "a", PIPE>>} }

InitAlign ==
    /\ pc = "start"
    /\ call = "none"
    /\ src \in AlignTables
    /\ result = <<>>

TokenizeAligned ==
    /\ pc = "start"
    /\ pc' = "tokenized"
    /\ call' = "tokenizer.table"
    /\ result' = withCells(table(src))
    /\ UNCHANGED src

RenderAligned ==
    /\ pc = "tokenized"
    /\ pc' = "rendered"
    /\ call' = "renderer.table"
    /\ result' = rendererTable(result)
    /\ UNCHANGED src

RestoreAligned ==
    /\ pc = "rendered"
    /\ pc' = "restored"
    /\ call' = "restorer.table"
    /\ result' = restorerTable(result)
    /\ UNCHANGED src

RetokenizeAligned ==
    /\ pc = "restored"
    /\ pc' = "retokenized"
    /\ call' = "tokenizer.table"
    /\ result' = table(result)
    /\ UNCHANGED src

NextAlign ==
    \/ TokenizeAligned \/ RenderAligned \/ RestoreAligned
    \/ RetokenizeAligned

SpecAlign == InitAlign /\ [][NextAlign]_vars

\* C18: the delimiter row the restorer writes has one cell per header
\* cell, and the tokenizer reads from it the alignments the table had.
C18_AlignmentRoundTrip ==
    /\ pc = "restored" =>
           Len(splitCells(Lines(result)[2], 0)) = Len(table(src).header)
    /\ pc = "retokenized" =>
           result.type = "table" /\ result.align = table(src).align

\* a table of three columns, left, right and center, came back
C18_Witness ==
    /\ pc = "retokenized"
    /\ result.type = "table"
    /\ result.align = <<"left", "right", "center">>


(***************************************************************************)
(* A list item through renderer.listitem and restorer.listItem: task items *)
(* and plain items, with and without a nested list of task items and of    *)
(* plain items.                                                            *)
(***************************************************************************)
MaxSubItems == 1

ItemTextsOfList == {<<"a">>, <<"b">>}

SubLists ==
    { [type |-> "list", raw |-> <<>>, ordered |-> ordered, items |-> items] :
        ordered \in BOOLEAN,
        items \in SeqsUpTo({listItemToken(task, checked, <<"b">>) :
                               task \in BOOLEAN, checked \in BOOLEAN},
                           MaxSubItems) \ {<<>>} }

\* the item with a list after its text
withSubList(item, list) == [item EXCEPT !.tokens = @ \o <<list>>]

NestedItemTokens ==
    LET items == {listItemToken(task, checked, x) :
                     task \in BOOLEAN, checked \in BOOLEAN,
                     x \in ItemTextsOfList}
    IN  items \cup {withSubList(item, list) :
                       item \in items, list \in SubLists}

InitItems ==
    /\ pc = "start"
    /\ call = "none"
    /\ src \in NestedItemTokens
    /\ result = <<>>

RenderItem ==
    /\ pc = "start"
    /\ pc' = "rendered"
    /\ call' = "renderer.listitem"
    /\ result' = rendererListitem(src)
    /\ UNCHANGED src

RestoreItem ==
    /\ pc = "rendered"
    /\ pc' = "restored"
    /\ call' = "restorer.listItem"
    /\ result' = restorerListItem(result, 0, FALSE, 0)
    /\ UNCHANGED src

NextItems == RenderItem \/ RestoreItem

SpecItems == InitItems /\ [][NextItems]_vars

\* the item has a checkbox among its own children
HasOwnCheckbox(li) ==
    \E i \in 1..Len(li.children) :
        /\ li.children[i].tagName = "INPUT"
        /\ Attr(li.children[i], "inputType", "text") = "checkbox"

\* the text of one child of an item: a nested list after an empty line, any
\* other child as its handler restores it
ChildText(child) ==
    IF child.tagName \in {"UL", "OL"} THEN NLNL \o restorerList(child, 1)
    ELSE elementParser(child.type, child)

\* C19: the restored item has a checkbox marker exactly when the item has
\* a checkbox of its own, and an item without one is restored with the text
\* of all its children.
C19_CheckboxOfItemOnly ==
    pc = "restored" =>
        LET li == rendererListitem(src)
        IN  /\ StartsWith(result, <<"-", SP, "[">>) <=> HasOwnCheckbox(li)
            /\ ~ HasOwnCheckbox(li) =>
                   result = <<"-", SP>>
                            \o Concat([i \in 1..Len(li.children) |->
                                          ChildText(li.children[i])])


(***************************************************************************)
(* concatTexts called on inline tokens nested up to MaxNest deep, with     *)
(* every ceiling up to MaxCeiling, and renderer.heading on a heading of    *)
(* the same tokens.                                                        *)
(***************************************************************************)
MaxNest == 3
MaxCeiling == 2

\* the texts of the leaf tokens, in document order
RECURSIVE LeafTexts(_)
LeafTexts(tokens) ==
    Concat([i \in 1..Len(tokens) |->
               IF "tokens" \in DOMAIN tokens[i]
               THEN LeafTexts(tokens[i].tokens)
               ELSE Attr(tokens[i], "text", <<>>)])

\* the em token around the tokens
emToken(tokens) ==
    [type |-> "em", raw |-> <<"*">> \o LeafTexts(tokens) \o <<"*">>,
     text |-> LeafTexts(tokens), tokens |-> tokens]

\* lists of inline tokens nested at most n deep
RECURSIVE NestedTokens(_)
NestedTokens(n) ==
    IF n = 0
    THEN { <<>>, <<textToken(<<"a">>)>>, <<textToken(<<"a">>), textToken(<<"b">>)>>,
           <<[type |-> "br", raw |-> <<SP, SP, NL>>]>> }
    ELSE LET inner == NestedTokens(n - 1)
         IN  inner
             \cup {<<emToken(ts)>> : ts \in inner}
             \cup {<<textToken(<<"a">>), emToken(ts)>> : ts \in inner}
             \cup {<<emToken(ts), textToken(<<"b">>)>> : ts \in inner}

InitConcat ==
    /\ pc = "start"
    /\ call = "none"
    /\ src \in NestedTokens(MaxNest)
    /\ result = <<>>

CallConcatTexts ==
    /\ pc = "start"
    /\ \E maxDepth \in 0..MaxCeiling :
           result' = [maxDepth |-> maxDepth,
                      value |-> concatTexts(src, 0, maxDepth)]
    /\ pc' = "done"
    /\ call' = "concatTexts"
    /\ UNCHANGED src

RenderHeading ==
    /\ pc = "start"
    /\ pc' = "done"
    /\ call' = "renderer.heading"
    /\ result' = [maxDepth |-> defaultMaxDepth,
                  value |-> emitted(<<rendererHeading(
                                [type |-> "heading", depth |-> 1,
                                 raw |-> <<"#", SP>> \o LeafTexts(src),
                                 text |-> LeafTexts(src),
                                 tokens |-> src])>>)]
    /\ UNCHANGED src

NextConcat == CallConcatTexts \/ RenderHeading

SpecConcat == InitConcat /\ [][NextConcat]_vars

\* how deep the tokens are nested: 0 when no token has tokens of its own
RECURSIVE Nesting(_)
Nesting(tokens) ==
    LET inner == {i \in 1..Len(tokens) : "tokens" \in DOMAIN tokens[i]}
    IN  IF inner = {} THEN 0
        ELSE 1 + Max({Nesting(tokens[i].tokens) : i \in inner})

\* C20: concatTexts throws exactly when the tokens are nested deeper than
\* the ceiling it was called with, and gives the texts of the leaf tokens
\* in document order otherwise.
C20_DepthGuard ==
    pc = "done" /\ call = "concatTexts" =>
        result.value = IF Nesting(src) > result.maxDepth
                       THEN tooManyNested ELSE LeafTexts(src)


(***************************************************************************)
(* HTML.parse applied to the editor element and to other elements, over    *)
(* rendered blocks as children.                                            *)
(***************************************************************************)
\* a slip that takes every element for the editor
classListContainsAny(element, name) == TRUE

\* element.classList.contains(name): the class names are the parts of
\* className between spaces
classListContains(element, name) ==
    LET classes == Split(Attr(element, "className", <<>>), <<SP>>)
    IN  \E i \in 1..Len(classes) : classes[i] = <<name>>

\* HTML.parseParagraph(paragraphElement)
parseParagraph(paragraphElement) ==
    elementParser(paragraphElement.type, paragraphElement)

\* HTML.parse(element); a handler that throws ends the call
HTMLparse(element) ==
    IF ~ classListContains(element, "markdown-editor")
    THEN (IF parseParagraph(element) = TypeError THEN TypeError
          ELSE <<parseParagraph(element)>>)
    ELSE LET paragraphs == [i \in 1..Len(element.children) |->
                               parseParagraph(element.children[i])]
         IN  IF Thrown(paragraphs) THEN TypeError ELSE paragraphs

MaxEditorChildren == 2

\* rendered blocks: paragraphs, a quote, a rule, a code block, a heading
EditorBlocks ==
    { templateParagraph(<<templateText(<<"a">>)>>),
      templateParagraph(<<templateText(<<"a">>), templateBr,
                          templateText(<<"b">>)>>),
      templateBlockquote(<<templateParagraph(<<templateText(<<"a">>)>>)>>),
      templateHr("hr", <<"-", "-", "-">>),
      templateCode("code", <<"a">>, <<>>),
      templateHeading("heading", <<templateText(<<"a">>)>>, 1, <<"a">>) }

\* the editor element, an element whose class only ends like the editor's,
\* and blocks of the renderer, over the same children
ParseRoots ==
    { [tagName |-> "DIV", type |-> type, purposes |-> "", text |-> <<>>,
       children |-> children, className |-> className] :
        type \in {"", "paragraph", "blockquote"},
        className \in { <<"markdown-editor">>,
                        <<"editor", SP, "markdown-editor">>,
                        <<"markdown-block">>, <<"not-markdown-editor">> },
        children \in SeqsUpTo(EditorBlocks, MaxEditorChildren) }

InitParse ==
    /\ pc = "start"
    /\ call = "none"
    /\ src \in ParseRoots
    /\ result = <<>>

ParseElement ==
    /\ pc = "start"
    /\ pc' = "done"
    /\ call' = "HTML.parse"
    /\ result' = HTMLparse(src)
    /\ UNCHANGED src

NextParse == ParseElement

SpecParse == InitParse /\ [][NextParse]_vars

\* the element has the class of the editor
IsEditor(element) ==
    \E i \in 1..Len(element.className) :
        /\ element.className[i] = "markdown-editor"
        /\ i = 1 \/ element.className[i - 1] = SP
        /\ i = Len(element.className) \/ element.className[i + 1] = SP

C22_DeclineNeverThrows ==
    pc = "done" =>
        /\ result.type # "TypeError"
        /\ call = "paragraph" /\ paragraphCapture(src) = 0 =>
               result = NoToken


(***************************************************************************)
(* tokenizer.code over the chunks of one list, tokenized one after another *)
(* in any order.  rules.renderer.code.pattern is one object for all calls: *)
(* result holds its lastIndex and the token each chunk got so far.         *)
(***************************************************************************)
MaxHistory == 3

HistoryChunks ==
    { FENCE \o <<"a">> \o FENCE,
      <<"a">> \o FENCE \o <<"b">> \o FENCE,
      FENCE \o <<NL, "a", NL>> \o FENCE \o <<NL>> \o FENCE \o <<"b">> \o FENCE,
      <<"a">> }

Pending == [type |-> "pending"]

InitHistory ==
    /\ pc = "start"
    /\ call = "none"
    /\ src \in SeqsUpTo(HistoryChunks, MaxHistory) \ {<<>>}
    /\ result = [lastIndex |-> 0, tokens |-> [i \in 1..Len(src) |-> Pending]]

\* tokenizer.code(src) for one chunk that has no token yet: exec begins at
\* the lastIndex the pattern has and leaves its new lastIndex in it
TokenizeChunk ==
    /\ pc \in {"start", "tokenizing"}
    /\ \E i \in 1..Len(src) :
          /\ result.tokens[i] = Pending
          /\ result' =
                 [lastIndex |-> codePattern(src[i], result.lastIndex).lastIndex,
                  tokens |-> [result.tokens EXCEPT
                                 ![i] = code(src[i], result.lastIndex)]]
    /\ pc' = "tokenizing"
    /\ call' = "tokenizer.code"
    /\ UNCHANGED src

\* every chunk has its token
AllTokenized ==
    /\ pc = "tokenizing"
    /\ \A i \in 1..Len(src) : result.tokens[i] # Pending
    /\ pc' = "done"
    /\ UNCHANGED <<call, src, result>>

NextHistory == TokenizeChunk \/ AllTokenized

SpecHistory == InitHistory /\ [][NextHistory]_vars

\* C23: the token of a chunk is the token tokenizer.code gives for that
\* chunk's text alone, whatever was tokenized before it.
C23_ChunksIndependent ==
    \A i \in 1..Len(src) :
        result.tokens[i] # Pending => result.tokens[i] = code(src[i], 0)


(***************************************************************************)
(* addEmptyPlaceholder applied to every list of at most MaxPlaceholderLines *)
(* quote lines, bare and with content.                                     *)
(***************************************************************************)
MaxPlaceholderLines == 4

PlaceholderLines == { <<GT>>, <<GT, SP>>, <<GT, SP, "a">>, <<"a">> }

InitPlaceholder ==
    /\ pc = "start"
    /\ call = "none"
    /\ src \in SeqsUpTo(PlaceholderLines, MaxPlaceholderLines)
    /\ result = <<>>

AddPlaceholders ==
    /\ pc = "start"
    /\ pc' = "done"
    /\ call' = "addEmptyPlaceholder"
    /\ result' = addEmptyPlaceholder(src)
    /\ UNCHANGED src

NextPlaceholder == AddPlaceholders

SpecPlaceholder == InitPlaceholder /\ [][NextPlaceholder]_vars

\* a line of the input that is a > with nothing but spaces after it
IsBareLine(line) ==
    line # <<>> /\ line[1] = GT /\ \A k \in 2..Len(line) : line[k] = SP

\* C24: a line gets [EMPTY], once, exactly when it is a bare line and the
\* line after it in the input is a bare line; every other line stays.
C24_TagsEveryFollowedBareLine ==
    pc = "done" =>
        /\ Len(result) = Len(src)
        /\ \A i \in 1..Len(src) :
               result[i] = IF /\ IsBareLine(src[i])
                              /\ i < Len(src)
                              /\ IsBareLine(src[i + 1])
                           THEN src[i] \o EMPTY
                           ELSE src[i]


(***************************************************************************)
(* Tokenizer: the run loop of tokenizer.blockquote, one round at a time,   *)
(* with the code rule and the list rule of the block lexer.  The texts are *)
(* lines of letters, bullets, one-line fences and quote markers, none of   *)
(* them indented.                                                          *)
(***************************************************************************)
\* the bullet of the list rule of the base engine, /^( {0,3}[*+-])/ and a
\* space or the line end after it
bullet(line) ==
    line # <<>> /\ line[1] = "-" /\ (Len(line) = 1 \/ line[2] = SP)

\* fencesBeginRegex of the list rule with the indent of the pedantic rules,
\* /^ {0,1}(?:```|~~~)/
fencesBegin(line) ==
    StartsWith(line, FENCE) \/ (StartsWith(line, <<SP>>) /\ OccursAt(line, FENCE, 2))

\* the lines the list rule takes: n are taken, line is the line before
\* without its first two characters, blankLine says that an empty line was
\* taken.  A fence ends the list; a bullet begins the next item; an empty
\* line is taken; any other line goes on with the item unless an empty
\* line or a fence came before it.
RECURSIVE ListLines(_, _, _, _)
ListLines(lines, n, blankLine, line) ==
    IF n = Len(lines) THEN n
    ELSE LET nextLine == lines[n + 1]
         IN  IF fencesBegin(nextLine) THEN n
             ELSE IF bullet(nextLine)
             THEN ListLines(lines, n + 1,
                            ~ HasNonSpace(SliceFrom(nextLine, 2)),
                            SliceFrom(nextLine, 3))
             ELSE IF ~ HasNonSpace(nextLine)
             THEN ListLines(lines, n + 1, TRUE, SliceFrom(nextLine, 3))
             ELSE IF blankLine \/ fencesBegin(line) THEN n
             ELSE ListLines(lines, n + 1, blankLine, SliceFrom(nextLine, 3))

\* this.list(src) of the base engine: the token of the list at the start
\* of s, its raw without the white space at its end
list(s) ==
    LET lines == Lines(s)
    IN  IF ~ bullet(lines[1]) THEN NoToken
        ELSE [type |-> "list",
              raw  |-> TrimEnd(Join(SubSeq(lines, 1,
                           ListLines(lines, 1,
                                     ~ HasNonSpace(SliceFrom(lines[1], 2)),
                                     SliceFrom(lines[1], 3))),
                           <<NL>>))]

\* what the lexer gives back: the tokens, and the lastIndex it leaves in
\* rules.renderer.code.pattern
lexed(tokens, lastIndex) == [tokens |-> tokens, lastIndex |-> lastIndex]

\* the state of the run loop: the lines left, raw and text so far, the
\* child tokens, the lastIndex of the code pattern, and how the loop was
\* left ("" while it goes on)
runState(lines, raw, text, tokens, lastIndex, exit) ==
    [lines |-> lines, raw |-> raw, text |-> text, tokens |-> tokens,
     lastIndex |-> lastIndex, exit |-> exit]

RECURSIVE blockquoteAt(_, _)
RECURSIVE lexBlocks(_, _, _, _)

\* the rules of the block lexer after the code rule failed and reset the
\* lastIndex of its pattern: tokenizer.blockquote, the list rule,
\* tokenizer.paragraph.  The texts of the list items are lexed by the list
\* rule; they hold no fence, so the code pattern fails on them too.
lexAfterCode(s, tokens, lastParagraphClipped) ==
    LET n == Len(tokens)
    IN  IF blockquoteStart(Lines(s)[1])
        THEN The({lexBlocks(SliceFrom(s, Len(q.token.raw) + 1),
                            Append(tokens, q.token), lastParagraphClipped,
                            q.lastIndex) :
                  q \in {blockquoteAt(s, 0)}})
        ELSE IF bullet(Lines(s)[1])
        THEN The({lexBlocks(SliceFrom(s, Len(tok.raw) + 1),
                            Append(tokens, tok), lastParagraphClipped, 0) :
                  tok \in {list(s)}})
        ELSE The({
            IF lastParagraphClipped /\ n > 0 /\ tokens[n].type = "paragraph"
            THEN lexBlocks(SliceFrom(s, Len(tok.raw) + 1),
                     [tokens EXCEPT ![n] =
                         paragraphToken(@.raw \o <<NL>> \o tok.raw,
                                        @.text \o <<NL>> \o tok.text)],
                     FALSE, 0)
            ELSE lexBlocks(SliceFrom(s, Len(tok.raw) + 1),
                     Append(tokens, paragraphToken(tok.raw, tok.text)),
                     FALSE, 0) :
            tok \in {paragraph(s)}})

\* this.lexer.blockTokens(src, tokens, lastParagraphClipped): the space
\* rule, tokenizer.code, then the other rules.  A code token after a
\* paragraph goes into the paragraph; the source goes on after as many
\* characters as the raw of the token has.
lexBlocks(s, tokens, lastParagraphClipped, lastIndex) ==
    LET k == spaceLen(s)
        n == Len(tokens)
    IN  IF s = <<>> THEN lexed(tokens, lastIndex)
        ELSE IF k = 1 /\ n > 0
        THEN lexBlocks(Tail(s), [tokens EXCEPT ![n].raw = @ \o <<NL>>],
                       lastParagraphClipped, lastIndex)
        ELSE IF k > 0
        THEN lexBlocks(SliceFrom(s, k + 1),
                 Append(tokens, [type |-> "space", raw |-> SubSeq(s, 1, k),
                                 text |-> <<>>, tokens |-> <<>>]),
                 lastParagraphClipped, lastIndex)
        ELSE The({
            IF ~ tok.matched
            THEN lexAfterCode(s, tokens, lastParagraphClipped)
            ELSE IF n > 0 /\ tokens[n].type = "paragraph"
            THEN lexBlocks(SliceFrom(s, Len(tok.raw) + 1),
                     [tokens EXCEPT
                         ![n].raw = @ \o <<NL>> \o tok.raw,
                         ![n].text = @ \o <<NL>>
                                       \o parseCodeBlock(tok.raw).content],
                     lastParagraphClipped, tok.lastIndex)
            ELSE lexBlocks(SliceFrom(s, Len(tok.raw) + 1),
                     Append(tokens,
                            [type |-> "code", raw |-> tok.raw,
                             text |-> parseCodeBlock(tok.raw).content,
                             tokens |-> <<>>]),
                     lastParagraphClipped, tok.lastIndex) :
            tok \in {codePattern(s, lastIndex)}})

\* a slip in the list branch: the lines left are those of the new raw,
\* not the lines after the list
afterRunFromRaw(lines, raw, text, tokens, lastIndex) ==
    LET oldToken == tokens[Len(tokens)]
        newText  == oldToken.raw \o <<NL>> \o Join(lines, <<NL>>)
    IN  IF lines = <<>>
        THEN runState(lines, raw, text, tokens, lastIndex, "no lines")
        ELSE IF tokens = <<>>
        THEN runState(lines, raw, text, tokens, lastIndex, "")
        ELSE IF oldToken.type = "code"
        THEN runState(lines, raw, text, tokens, lastIndex, "code")
        ELSE IF oldToken.type = "blockquote"
        THEN The({runState(lines,
                      DropLast(raw, Len(oldToken.raw)) \o q.token.raw,
                      DropLast(text, Len(oldToken.text)) \o q.token.text,
                      [tokens EXCEPT ![Len(tokens)] = q.token],
                      q.lastIndex, "blockquote") :
                  q \in {blockquoteAt(newText, lastIndex)}})
        ELSE IF oldToken.type = "list"
        THEN The({runState(Lines(DropLast(raw, Len(oldToken.raw)) \o newToken.raw),
                      DropLast(raw, Len(oldToken.raw)) \o newToken.raw,
                      DropLast(text, Len(oldToken.raw)) \o newToken.raw,
                      [tokens EXCEPT ![Len(tokens)] = newToken],
                      0, "") :
                  newToken \in {list(newText)}})
        ELSE runState(lines, raw, text, tokens, lastIndex, "")

\* the end of one round of the while loop, after the lexer: no lines left,
\* a code token last, a blockquote last that takes the lines left into
\* itself, a list last that is tokenized again with the lines left and
\* gives back the lines after it, or the next round
afterRun(lines, raw, text, tokens, lastIndex) ==
    LET oldToken == tokens[Len(tokens)]
        newText  == oldToken.raw \o <<NL>> \o Join(lines, <<NL>>)
    IN  IF lines = <<>>
        THEN runState(lines, raw, text, tokens, lastIndex, "no lines")
        ELSE IF tokens = <<>>
        THEN runState(lines, raw, text, tokens, lastIndex, "")
        ELSE IF oldToken.type = "code"
        THEN runState(lines, raw, text, tokens, lastIndex, "code")
        ELSE IF oldToken.type = "blockquote"
        THEN The({runState(lines,
                      DropLast(raw, Len(oldToken.raw)) \o q.token.raw,
                      DropLast(text, Len(oldToken.text)) \o q.token.text,
                      [tokens EXCEPT ![Len(tokens)] = q.token],
                      q.lastIndex, "blockquote") :
                  q \in {blockquoteAt(newText, lastIndex)}})
        ELSE IF oldToken.type = "list"
        THEN The({runState(Lines(SliceFrom(newText, Len(newToken.raw) + 1)),
                      DropLast(raw, Len(oldToken.raw)) \o newToken.raw,
                      DropLast(text, Len(oldToken.raw)) \o newToken.raw,
                      [tokens EXCEPT ![Len(tokens)] = newToken],
                      0, "") :
                  newToken \in {list(newText)}})
        ELSE runState(lines, raw, text, tokens, lastIndex, "")

\* one round of the while loop of tokenizer.blockquote, from a state with
\* lines left
blockquoteRun(st) ==
    LET i    == currentLinesLen(st.lines, 1, FALSE)
        cur  == SubSeq(st.lines, 1, i)
        cRaw == Join(cur, <<NL>>)
        cTxt == currentText(cur)
    IN  The({afterRun(SliceFrom(st.lines, i + 1),
                 IF st.raw # <<>> THEN st.raw \o <<NL>> \o cRaw ELSE cRaw,
                 IF st.text # <<>> THEN st.text \o <<NL>> \o cTxt ELSE cTxt,
                 l.tokens, l.lastIndex) :
             l \in {lexBlocks(cTxt, st.tokens, TRUE, st.lastIndex)}})

\* the while loop: rounds until one leaves it
RECURSIVE blockquoteRuns(_)
blockquoteRuns(st) ==
    The({IF nx.exit # "" THEN nx ELSE blockquoteRuns(nx) :
         nx \in {blockquoteRun(st)}})

\* the state the loop begins with for the capture cap0
firstRun(cap0, lastIndex) ==
    runState(addEmptyPlaceholder(Lines(rtrim(cap0))), <<>>, <<>>, <<>>,
             lastIndex, "")

\* tokenizer.blockquote(src) with the lastIndex of the code pattern: the
\* token and the lastIndex afterwards
blockquoteAt(s, lastIndex) ==
    LET cap0 == blockquoteCapture(s)
    IN  IF cap0 = <<>> THEN [token |-> NoToken, lastIndex |-> lastIndex]
        ELSE The({[token |-> quoteToken(st.raw, st.text, st.tokens),
                   lastIndex |-> st.lastIndex] :
                  st \in {blockquoteRuns(firstRun(cap0, lastIndex))}})

(***************************************************************************)
(* tokenizer.blockquote, round by round, on every document of at most      *)
(* MaxRunLines lines: quote lines with a list item, a paragraph, a fenced  *)
(* block or a nested quote, bare quote lines, and lines without marker     *)
(* that are text, a fenced block or a list item.  The code pattern holds   *)
(* 0 or the lastIndex an earlier match left in it.                         *)
(***************************************************************************)
MaxRunLines == 3

\* the lastIndex after a match of two fences with nothing between them
EarlierMatchEnd == 6

RunLines ==
    { <<GT, SP, "-", SP, "a">>, <<GT, SP, "a">>, <<"b">>,
      FENCE \o <<"x">> \o FENCE, <<GT, SP>> \o FENCE \o <<"x">> \o FENCE,
      <<GT, SP, GT, SP, "a">>, <<GT>>, <<"-", SP, "b">> }

RunCorpus ==
    {Join(ls, <<NL>>) : ls \in SeqsUpTo(RunLines, MaxRunLines) \ {<<>>}}

InitRuns ==
    /\ pc = "start"
    /\ call = "none"
    /\ src \in RunCorpus
    /\ \E lastIndex \in {0, EarlierMatchEnd} :
           result = runState(<<>>, <<>>, <<>>, <<>>, lastIndex, "")

\* the rule is tried: it declines, or the loop begins with the lines of
\* the capture
BeginRuns ==
    /\ pc = "start"
    /\ call' = "blockquote"
    /\ IF blockquoteCapture(src) = <<>>
       THEN pc' = "done" /\ result' = [result EXCEPT !.exit = "declined"]
       ELSE /\ pc' = "run"
            /\ result' = firstRun(blockquoteCapture(src), result.lastIndex)
    /\ UNCHANGED src

\* one round of the while loop
RunOnce ==
    /\ pc = "run"
    /\ result' = blockquoteRun(result)
    /\ pc' = IF result'.exit = "" THEN "run" ELSE "done"
    /\ UNCHANGED <<call, src>>

NextRuns == BeginRuns \/ RunOnce

SpecRuns == InitRuns /\ [][NextRuns]_vars

\* the loop left from outside; the tokenizer has no such step
Leave == pc' = "done" /\ UNCHANGED <<call, src, result>>

\* the tokenizer is not held up: while the loop is not left, steps are
\* taken.  With Leave, whether a step can be taken is read off the
\* position alone; every step that is taken is one of NextRuns.
SpecRunsFair == SpecRuns /\ WF_vars(pc # "done" /\ (Leave \/ NextRuns))

\* the characters of the lines left
PendingLength(st) == Len(Join(st.lines, <<NL>>))

\* the last child token is of the type
LastChildIs(st, type) ==
    st.tokens # <<>> /\ st.tokens[Len(st.tokens)].type = type

\* C25: the loop comes to its end; a round that does not leave the loop
\* leaves fewer characters in the lines left, also when the list branch
\* made these lines anew; and the loop is left only with no lines left,
\* or with a code token last and the lines left in neither raw nor text,
\* or with a blockquote last that was tokenized again with the lines left.
C25_RunLoopTerminates ==
    /\ <>(pc = "done")
    /\ [][(pc = "run" /\ pc' = "run") => PendingLength(result') < PendingLength(result)]_vars
    /\ [](pc = "done" /\ result.exit # "declined" =>
             \/ result.lines = <<>>
             \/ /\ LastChildIs(result, "code")
                /\ result.exit = "code"
             \/ /\ LastChildIs(result, "blockquote")
                /\ result.exit = "blockquote"
                /\ EndsWith(result.raw, result.tokens[Len(result.tokens)].raw))

\* a list item in a quote and a line without marker after it: the list
\* is tokenized again with the line, and the loop is left a round later
C25_Witness ==
    /\ pc = "done"
    /\ src = <<GT, SP, "-", SP, "a", NL, "b">>
    /\ result.exit = "no lines"
    /\ LastChildIs(result, "list")
    /\ result.tokens[Len(result.tokens)].raw = <<"-", SP, "a", NL, "b">>


(***************************************************************************)
(* replaceWithSoftLineWraps applied to every document of two to            *)
(* MaxLevelLines lines: quote lines of depth one and two, with and without *)
(* a > in their content, a bare quote line, a line without marker.         *)
(***************************************************************************)
MaxLevelLines == 2

LevelLines ==
    { <<GT, SP, "a">>, <<GT, GT, SP, "a">>, <<GT, SP, GT, SP, "a">>,
      <<GT, SP, "a", GT>>, <<GT, SP, "a", SP, GT, SP, "b">>,
      <<GT, GT, SP, "a", GT>>, <<GT>>, <<"a">> }

LevelCorpus ==
    {Join(ls, <<NL>>) :
        ls \in {q \in SeqsUpTo(LevelLines, MaxLevelLines) : Len(q) >= 2}}

InitLevels ==
    /\ pc = "start"
    /\ call = "none"
    /\ src \in LevelCorpus
    /\ result = <<>>

WrapQuoteLines ==
    /\ pc = "start"
    /\ pc' = "done"
    /\ call' = "replaceWithSoftLineWraps"
    /\ result' = replaceWithSoftLineWraps(src)
    /\ UNCHANGED src

NextLevels == WrapQuoteLines

SpecLevels == InitLevels /\ [][NextLevels]_vars

\* the count of the > markers a line begins with, spaces between them
\* allowed
RECURSIVE LeadingMarkers(_)
LeadingMarkers(line) ==
    IF TrimStart(line) # <<>> /\ TrimStart(line)[1] = GT
    THEN 1 + LeadingMarkers(Tail(TrimStart(line)))
    ELSE 0

\* C26: where the line end between two quote lines got the two spaces, the
\* two lines begin with the same count of > markers.
C26_BreakOnlyAtSameDepth ==
    pc = "done" =>
        \A i \in 1..(Len(Lines(src)) - 1) :
            (/\ LeadingMarkers(Lines(src)[i]) > 0
             /\ LeadingMarkers(Lines(src)[i + 1]) > 0
             /\ Lines(result)[i] = Lines(src)[i] \o <<SP, SP>>)
                => LeadingMarkers(Lines(src)[i])
                       = LeadingMarkers(Lines(src)[i + 1])


(***************************************************************************)
(* tokenizer.code applied to fenced blocks: a language line, a content of  *)
(* at most MaxContentLen characters, and the block whose closing fence     *)
(* follows the language line at once.  The pattern is fresh (lastIndex 0). *)
(***************************************************************************)
MaxContentLen == 3

FenceLanguages == { <<>>, <<"j">>, <<SP, "j">>, <<"j", SP>>, <<"j", "s">> }

FenceContents == Texts({<<"x">>, <<SP>>, <<NL>>}, MaxContentLen)

\* ```L\nC\n```
FencedBlock(L, C) == FENCE \o L \o <<NL>> \o C \o <<NL>> \o FENCE

\* ```L\n```
EmptyBlock(L) == FENCE \o L \o <<NL>> \o FENCE

InitFenced ==
    /\ pc = "start"
    /\ call = "none"
    /\ src \in {FencedBlock(L, C) : L \in FenceLanguages, C \in FenceContents}
                  \cup {EmptyBlock(L) : L \in FenceLanguages}
    /\ result = <<>>

TokenizeFenced ==
    /\ pc = "start"
    /\ pc' = "done"
    /\ call' = "code"
    /\ result' = code(src, 0)
    /\ UNCHANGED src

NextFenced == TokenizeFenced

SpecFenced == InitFenced /\ [][NextFenced]_vars

\* C27: the token of a fenced block has the language line, trimmed, as
\* its language and the content, as it is, as its text; the content of the
\* block without content lines is empty.
C27_LanguageAndText ==
    pc = "done" =>
        /\ result.type = "code"
        /\ result.raw = src
        /\ \A L \in FenceLanguages :
               /\ \A C \in FenceContents :
                      src = FencedBlock(L, C) =>
                          result.language = Trim(L) /\ result.text = C
               /\ src = EmptyBlock(L) =>
                      result.language = Trim(L) /\ result.text = <<>>


(***************************************************************************)
(* renderer.link applied to inline links [text](href) and                  *)
(* [text](href "title") with a text of at most MaxLinkText characters,     *)
(* among them links whose text is their address or their title.            *)
(***************************************************************************)
MaxLinkText == 2

LinkTexts == Texts({<<"a">>, <<"u">>, <<"t">>}, MaxLinkText)

LinkHrefs == { <<"u">>, <<"a">>, <<"u", "a">> }

LinkTitles == { <<>>, <<"t">>, <<"a">> }

\* the token of the link rule of the base engine: raw is what was matched,
\* text what stands between the brackets
linkToken(text, href, title) ==
    [type |-> "link",
     raw |-> <<"[">> \o text \o <<"]", "(">> \o href
                 \o (IF title = <<>> THEN <<>>
                     ELSE <<SP, "\"">> \o title \o <<"\"">>)
                 \o <<")">>,
     text |-> text, href |-> href, title |-> title,
     tokens |-> IF text = <<>> THEN <<>> ELSE <<textToken(text)>>]

InitLink ==
    /\ pc = "start"
    /\ call = "none"
    /\ src \in {linkToken(x, h, t) :
                   x \in LinkTexts, h \in LinkHrefs, t \in LinkTitles}
    /\ result = <<>>

RenderLink ==
    /\ pc = "start"
    /\ pc' = "done"
    /\ call' = "renderer.link"
    /\ result' = <<rendererLink(src)>>
    /\ UNCHANGED src

NextLink == RenderLink

SpecLink == InitLink /\ [][NextLink]_vars

\* C28: the text of the prefix node, the text of the link and the text of
\* the suffix node, one after the other, are the raw of the token.
C28_LinkStructure ==
    pc = "done" =>
        result[1].children[1].text \o src.text \o result[1].children[3].text
            = src.raw


(***************************************************************************)
(* MarkdownEditor: the chunks state and the effect on [src].  Every run of *)
(* the effect has its own isMounted flag, awaits Markdown.parse(src) and   *)
(* then appends the parts batch by batch, one batch per animation frame.   *)
(* The src prop is a list of at most MaxParts chunks and changes at most   *)
(* MaxChanges times; Markdown.parse resolves for these sources.  The state *)
(* of the component is in result, the prop in src.                         *)
(***************************************************************************)
MaxParts == 3
MaxChanges == 1

\* settings.chunkSize, as the one who mounts the editor set it
chunkSize == 2

EditorSources == SeqsUpTo({<<"a">>, <<"b">>}, MaxParts)

\* await Markdown.parse(src) for a list of chunks: the rendering of every
\* chunk, in order
MarkdownParse(source) == [i \in 1..Len(source) |-> markedParse(source[i])]

\* one run of the effect: the src it closed over, its isMounted flag, where
\* it stands (parsing, frame, finished), the index of its next batch
effectRun(source, isMounted, stage, index) ==
    [source |-> source, isMounted |-> isMounted, stage |-> stage,
     index |-> index]

InitEditor ==
    /\ pc = "mounted"
    /\ call = "none"
    /\ src \in EditorSources
    /\ result = [chunks |-> <<>>, isLoading |-> TRUE, isError |-> FALSE,
                 effects |-> <<effectRun(src, TRUE, "parsing", 0)>>]

\* renderNextChunk(index) of the effect run k
renderNextChunk(st, k, index) ==
    LET parts    == MarkdownParse(st.effects[k].source)
        endIndex == Min({index + chunkSize, Len(parts)})
    IN  IF ~ st.effects[k].isMounted \/ index >= Len(parts)
        THEN [st EXCEPT !.isLoading = FALSE, !.effects[k].stage = "finished"]
        ELSE [st EXCEPT !.chunks = @ \o SubSeq(parts, index + 1, endIndex),
                        !.effects[k].stage = "frame",
                        !.effects[k].index = endIndex]

\* Markdown.parse of a run resolves: renderNextChunk()
ParseResolves ==
    /\ \E k \in 1..Len(result.effects) :
           /\ result.effects[k].stage = "parsing"
           /\ result' = renderNextChunk(result, k, 0)
    /\ call' = "renderChunks"
    /\ UNCHANGED <<pc, src>>

\* the animation frame a run asked for: renderNextChunk(endIndex)
AnimationFrame ==
    /\ \E k \in 1..Len(result.effects) :
           /\ result.effects[k].stage = "frame"
           /\ result' = renderNextChunk(result, k, result.effects[k].index)
    /\ call' = "renderNextChunk"
    /\ UNCHANGED <<pc, src>>

\* the src prop changes: the cleanup of the run before, then the effect
\* runs for the new src
ChangeSrc ==
    /\ Len(result.effects) <= MaxChanges
    /\ \E source \in EditorSources \ {src} :
           /\ src' = source
           /\ result' =
                  [result EXCEPT
                      !.effects =
                          Append([@ EXCEPT ![Len(@)].isMounted = FALSE],
                                 effectRun(source, TRUE, "parsing", 0))]
    /\ call' = "useEffect"
    /\ UNCHANGED pc

NextEditor == ParseResolves \/ AnimationFrame \/ ChangeSrc

SpecEditor == InitEditor /\ [][NextEditor]_vars

\* the run of the effect for the src the editor has now
CurrentRun == result.effects[Len(result.effects)]

\* C29: when the run for the src the editor has now is finished, the
\* chunks are the parts of that src, in order, each once, and nothing
\* else; and a step that appends to the chunks is a step of that run.
C29_ShowsNewSource ==
    /\ [](CurrentRun.stage = "finished" =>
              result.chunks = MarkdownParse(src))
    /\ [][result'.chunks # result.chunks =>
              /\ src' = src
              /\ Len(result'.effects) = Len(result.effects)
              /\ result'.effects[Len(result.effects)] # CurrentRun]_vars


(***************************************************************************)
(* renderer.table and restorer.table applied to table tokens of one to     *)
(* MaxTableCols header cells and no to MaxTableRows body rows.             *)
(***************************************************************************)
MaxTableCols == 3
MaxTableRows == 2

\* the table token with the header texts and rows body rows, every body
\* cell an a
tableNodeToken(headers, rows) ==
    [type |-> "table",
     header |-> [i \in 1..Len(headers) |->
                    tableCell(headers[i], TRUE, "null")],
     rows |-> [k \in 1..rows |->
                  [i \in 1..Len(headers) |-> tableCell(<<"a">>, FALSE, "null")]]]

InitTableLines ==
    /\ pc = "start"
    /\ call = "none"
    /\ src \in {tableNodeToken(headers, rows) :
                   headers \in SeqsUpTo({<<"h">>, <<"k">>}, MaxTableCols)
                                   \ {<<>>},
                   rows \in 0..MaxTableRows}
    /\ result = <<>>

RenderTable ==
    /\ pc = "start"
    /\ pc' = "rendered"
    /\ call' = "renderer.table"
    /\ result' = rendererTable(src)
    /\ UNCHANGED src

RestoreTable ==
    /\ pc = "rendered"
    /\ pc' = "restored"
    /\ call' = "restorer.table"
    /\ result' = restorerTable(result)
    /\ UNCHANGED src

NextTableLines == RenderTable \/ RestoreTable

SpecTableLines == InitTableLines /\ [][NextTableLines]_vars

\* the cells of a line | c | c |: one less than it has pipes
PipeCells(line) == Cardinality({i \in 1..Len(line) : line[i] = PIPE}) - 1

\* C30: the restored table has two lines and one line for every body row,
\* and every line has as many cells as the header.
C30_TableLines ==
    pc = "restored" =>
        /\ Len(Lines(result)) = 2 + Len(src.rows)
        /\ \A i \in 1..Len(Lines(result)) :
               /\ StartsWith(Lines(result)[i], <<PIPE>>)
               /\ EndsWith(Lines(result)[i], <<PIPE>>)
               /\ PipeCells(Lines(result)[i]) = Len(src.header)

=============================================================================
